---- MODULE Spec2Model ----
(***************************************************************************)
(* Lobby coordinator of src/src/server.js (lines 1-746, the variant with   *)
(* reconnection grace, inactivity timer and early completion).             *)
(*                                                                         *)
(* The server is single threaded: every action below is one run of a       *)
(* handler or callback from its entry to its first await (or its end).     *)
(* A remote call in flight is an element of pendingJoin / pendingStart /   *)
(* pendingEnd, and its continuation is an action of its own.  A pending    *)
(* timer may fire at any moment; elapsed time is not measured.             *)
(***************************************************************************)
EXTENDS Integers, Sequences, FiniteSets, Bags, TLC

\* ---------------------------------------------------------------- bounds
MaxLobbies == 2      \* lobby objects ever created
MaxSockets == 2      \* connections ever accepted
MaxMsgs == 2         \* inbound messages ever received

\* ------------------------------------------------------- program constants
FullPass == 12
GracePeriod == 5000
ChallengeDuration == 900000

Cids == {"abc"}
Users == {"userA", "userB", "userC"}
NoSocket == 0
Undefined == -1
TestsValues == {5, FullPass}
ScoreValues == {0, 100}
Types == {"join", "ready", "codeRunning", "codeFinished", "testResults",
          "codeSubmitted", "endChallenge", "endChallengeForUser", "other"}

VARIABLES
    lobbies,       \* the registry Map: cid -> index into lobbyObjs, 0 = no entry
    lobbyObjs,     \* every lobby object ever created, registered or not
    timers,        \* closures of startChallengeTimer: interval + backstop
    cleanups,      \* pending retention timeouts (set of the lobby indexes that armed one)
    readyState,    \* per accepted connection, in order of acceptance: "OPEN" | "CLOSED"
    pendingJoin,   \* bag of joins suspended on validateChallengeAccess
    pendingStart,  \* lobby indexes whose ready handler is suspended on startChallengeInBackend
    pendingEnd,    \* lobby indexes whose endChallenge is suspended on the backend call
    msgs,          \* number of inbound messages received so far
    limit,         \* what the environment may still do in this run (fixed at Init)
    sent,          \* socket.send calls of the last step, in order
    log,           \* what the last step did (handler, lobbies removed, ...)
    hist,          \* per lobby object: counts of side effects, inputs of finalize
    store,         \* the CollaborationStore of store.js: its three Maps
    storeRun       \* the store's clock, the uuids issued, its last call, last activity

lobbyVars == <<lobbies, lobbyObjs, timers, cleanups, readyState, pendingJoin,
               pendingStart, pendingEnd, msgs, limit, sent, log, hist>>

vars == <<lobbies, lobbyObjs, timers, cleanups, readyState, pendingJoin,
          pendingStart, pendingEnd, msgs, limit, sent, log, hist, store, storeRun>>

\* ------------------------------------------------------------ Map helpers
\* A JavaScript Map is a sequence of [key, val] in insertion order.
MapKeys(m) == {m[i].key : i \in 1..Len(m)}
MapHas(m, k) == k \in MapKeys(m)
MapIdx(m, k) == CHOOSE i \in 1..Len(m) : m[i].key = k
MapGet(m, k) == m[MapIdx(m, k)].val
MapSet(m, k, v) ==
    IF MapHas(m, k) THEN [m EXCEPT ![MapIdx(m, k)] = [key |-> k, val |-> v]]
    ELSE Append(m, [key |-> k, val |-> v])
MapDelete(m, k) == SelectSeq(m, LAMBDA e : e.key # k)

\* ------------------------------------------------------- program state
\* The handlers are written as functions from program state to program
\* state, so that one handler can call another as the code does.  The
\* program state is the record Cur; Commit writes its fields back.
NewPlayer(ws) ==
    [ready |-> FALSE, socket |-> ws, running |-> FALSE, testsPassed |-> 0,
     submitted |-> FALSE, submittedResults |-> 0, submittedTestsPassed |-> 0,
     latestScore |-> 0]

NewLobby(cid) ==
    [cid |-> cid, players |-> <<>>, completedPlayers |-> <<>>,
     disconnectedPlayers |-> <<>>, timer |-> 0, status |-> "WAITING",
     challengeEnded |-> FALSE, started |-> FALSE, inactivityTimer |-> FALSE]

NewHist ==
    [startCalls |-> 0, timerStarted |-> 0, endedBroadcasts |-> 0, endCalls |-> 0,
     cleanupsArmed |-> 0, reason |-> "", allPlayers |-> <<>>, finalScores |-> <<>>,
     reconnected |-> {}, lastSubmitted |-> [u \in Users |-> 0],
     graceTimers |-> [u \in Users |-> 0]]

Cur ==
    [lobbies |-> lobbies, lobbyObjs |-> lobbyObjs, timers |-> timers,
     cleanups |-> cleanups, readyState |-> readyState, pendingJoin |-> pendingJoin,
     pendingStart |-> pendingStart, pendingEnd |-> pendingEnd,
     sent |-> <<>>, log |-> <<>>, hist |-> hist]

Commit(s) ==
    /\ lobbies' = s.lobbies
    /\ lobbyObjs' = s.lobbyObjs
    /\ timers' = s.timers
    /\ cleanups' = s.cleanups
    /\ readyState' = s.readyState
    /\ pendingJoin' = s.pendingJoin
    /\ pendingStart' = s.pendingStart
    /\ pendingEnd' = s.pendingEnd
    /\ sent' = s.sent
    /\ log' = s.log
    /\ hist' = s.hist
    /\ UNCHANGED <<store, storeRun>>

Event(ev, lobby, type, username) ==
    [ev |-> ev, lobby |-> lobby, type |-> type, username |-> username, ws |-> NoSocket]

\* the connection a message was received on
OnSocket(ws) == [Event("socket", 0, "", "") EXCEPT !.ws = ws]

Note(s, ev, lobby, type, username) ==
    [s EXCEPT !.log = Append(@, Event(ev, lobby, type, username))]

\* socket.send / ws.send: ws 8 delivers nothing on a socket that is not open
send(s, ws, type, username) ==
    IF s.readyState[ws] = "OPEN"
    THEN [s EXCEPT !.sent = Append(@, [type |-> type, to |-> ws, username |-> username])]
    ELSE s

\* a delivery loop that does not look at the state of the connection
DeliveriesUnchecked(s, players, type, username, excludeSocket) ==
    LET open == SelectSeq(players, LAMBDA e : e.val.socket # excludeSocket)
    IN [i \in 1..Len(open) |-> [type |-> type, to |-> open[i].val.socket, username |-> username]]

\* a delivery loop that leaves no connection out
DeliveriesToAll(s, players, type, username, excludeSocket) ==
    LET open == SelectSeq(players, LAMBDA e : s.readyState[e.val.socket] = "OPEN")
    IN [i \in 1..Len(open) |-> [type |-> type, to |-> open[i].val.socket, username |-> username]]

\* the sends of broadcast(cid, message, excludeSocket) over one players Map
Deliveries(s, players, type, username, excludeSocket) ==
    LET open == SelectSeq(players, LAMBDA e :
                    /\ s.readyState[e.val.socket] = "OPEN"
                    /\ e.val.socket # excludeSocket)
    IN [i \in 1..Len(open) |-> [type |-> type, to |-> open[i].val.socket, username |-> username]]

broadcast(s, cid, type, username, excludeSocket) ==
    IF ~MapHas(s.lobbies, cid) THEN s
    ELSE LET l == MapGet(s.lobbies, cid)
             d == Deliveries(s, s.lobbyObjs[l].players, type, username, excludeSocket)
         IN [s EXCEPT !.sent = @ \o d,
                      !.log = Append(@, [Event("broadcast", l, type, username)
                                            EXCEPT !.ws = excludeSocket])]

resetLobbyInactivityTimer(s, cid) ==
    IF ~MapHas(s.lobbies, cid) THEN s
    ELSE LET l == MapGet(s.lobbies, cid)
         IN [s EXCEPT !.lobbyObjs[l].inactivityTimer = (s.lobbyObjs[l].status = "WAITING")]

\* lobbies.delete(cid)
DeleteLobby(s, cid, by) ==
    IF ~MapHas(s.lobbies, cid) THEN s
    ELSE Note([s EXCEPT !.lobbies = MapDelete(@, cid)],
              "deleted", MapGet(s.lobbies, cid), by, "")

\* ------------------------------------------------------------ ranking
\* allPlayers.sort((a, b) => b.score - a.score): Array.prototype.sort is
\* stable; computed here as a stable insertion sort.
\* an insertion that puts an entry before the entries of equal score
InsertBeforeEqual(sorted, e) ==
    LET k == Cardinality({i \in 1..Len(sorted) : sorted[i].score > e.score})
    IN SubSeq(sorted, 1, k) \o <<e>> \o SubSeq(sorted, k + 1, Len(sorted))

InsertByScore(sorted, e) ==
    LET k == Cardinality({i \in 1..Len(sorted) : sorted[i].score >= e.score})
    IN SubSeq(sorted, 1, k) \o <<e>> \o SubSeq(sorted, k + 1, Len(sorted))

RECURSIVE SortByScore(_)
SortByScore(seq) ==
    IF seq = <<>> THEN <<>>
    ELSE InsertByScore(SortByScore(SubSeq(seq, 1, Len(seq) - 1)), seq[Len(seq)])

\* a default that replaces every score
AlwaysZero(x) == 0

\* x || 0 for a number x
OrZero(x) == IF x = 0 \/ x = Undefined THEN 0 ELSE x

\* a ranking input that also lists the participants inside their grace
\* window, by their last submitted score
AllPlayersWithPending(o) ==
    [i \in 1..Len(o.players) |->
        [username |-> o.players[i].key,
         score |-> OrZero(o.players[i].val.submittedResults),
         status |-> "active"]]
    \o
    [i \in 1..Len(o.completedPlayers) |->
        [username |-> o.completedPlayers[i].key,
         score |-> OrZero(o.completedPlayers[i].val.finalScore),
         status |-> "completed"]]
    \o
    [i \in 1..Len(o.disconnectedPlayers) |->
        [username |-> o.disconnectedPlayers[i].key,
         score |-> OrZero(o.disconnectedPlayers[i].val.playerData.submittedResults),
         status |-> "disconnected"]]

AllPlayers(o) ==
    [i \in 1..Len(o.players) |->
        [username |-> o.players[i].key,
         score |-> OrZero(o.players[i].val.submittedResults),
         status |-> "active"]]
    \o
    [i \in 1..Len(o.completedPlayers) |->
        [username |-> o.completedPlayers[i].key,
         score |-> IF OrZero(o.completedPlayers[i].val.finalScore) # 0
                   THEN o.completedPlayers[i].val.finalScore
                   ELSE OrZero(o.completedPlayers[i].val.submittedResults),
         status |-> "completed"]]

ParticipantScores(allPlayers) ==
    LET sorted == SortByScore(allPlayers)
    IN [i \in 1..Len(sorted) |->
          [username |-> sorted[i].username, score |-> sorted[i].score, rank |-> i]]

\* clearInterval(lobby.timer.intervalId) for lobby object l
ClearInterval(s, l) ==
    IF s.lobbyObjs[l].timer = 0 THEN s
    ELSE [s EXCEPT !.timers[s.lobbyObjs[l].timer].interval = FALSE]

\* the guard of endChallenge with the idempotency check left out
EndGuardMissing(s, cid) == ~MapHas(s.lobbies, cid)

\* line 433: if (!lobby || lobby.challengeEnded) return
EndGuard(s, cid) ==
    ~MapHas(s.lobbies, cid) \/ s.lobbyObjs[MapGet(s.lobbies, cid)].challengeEnded

\* endChallenge(cid, reason) up to its await; the rest is EndReturn
endChallenge(s, cid, reason) ==
    IF EndGuard(s, cid) THEN s
    ELSE LET l == MapGet(s.lobbies, cid)
             o == s.lobbyObjs[l]
             all == AllPlayers(o)
             s1 == [s EXCEPT !.lobbyObjs[l].challengeEnded = TRUE,
                             !.lobbyObjs[l].status = "ENDED"]
             s2 == ClearInterval(s1, l)
             s3 == [s2 EXCEPT !.hist[l].allPlayers = all,
                              !.hist[l].finalScores = ParticipantScores(all),
                              !.hist[l].reason = reason,
                              !.hist[l].endedBroadcasts = @ + 1,
                              !.hist[l].endCalls = @ + 1]
             s4 == broadcast(s3, cid, "challengeEnded", "", NoSocket)
         IN [s4 EXCEPT !.pendingEnd = @ \cup {l}]

\* startChallengeTimer(cid)
startChallengeTimer(s, cid) ==
    IF ~MapHas(s.lobbies, cid) THEN s
    ELSE LET l == MapGet(s.lobbies, cid)
             t == Len(s.timers) + 1
             s1 == [s EXCEPT !.lobbyObjs[l].status = "IN_PROGRESS",
                             !.lobbyObjs[l].timer = t,
                             !.timers = Append(@, [lobby |-> l, cid |-> cid,
                                                   interval |-> TRUE, backstop |-> TRUE,
                                                   expired |-> FALSE]),
                             !.hist[l].timerStarted = @ + 1]
         IN broadcast(s1, cid, "timerStarted", "", NoSocket)

\* a removal of a disconnected-pending entry that leaves its timer armed
TimerLeftArmed(s, l, username) == s

\* lines 66-69 and 586-589: if (disconnectedPlayer.disconnectTimer)
\* clearTimeout(disconnectedPlayer.disconnectTimer), for the entry of
\* username in lobby object l
ClearDisconnectTimer(s, l, username) ==
    LET d == s.lobbyObjs[l].disconnectedPlayers
    IN IF MapHas(d, username) /\ MapGet(d, username).disconnectTimer
       THEN [s EXCEPT !.lobbyObjs[l].disconnectedPlayers[MapIdx(d, username)].val.disconnectTimer = FALSE,
                      !.hist[l].graceTimers[username] = @ - 1]
       ELSE s

\* a grace expiry that only drops the record and never ends or removes the lobby
dropDisconnected(s, username, cid) ==
    IF ~MapHas(s.lobbies, cid) THEN s
    ELSE LET l == MapGet(s.lobbies, cid)
         IN Note([ClearDisconnectTimer(s, l, username) EXCEPT
                     !.lobbyObjs[l].disconnectedPlayers = MapDelete(@, username)],
                 "permanentLeave", l, "", username)

\* a grace expiry that looks only at the active table when it decides to
\* end or delete the lobby
handlePlayerDisconnectActiveOnly(s, username, cid) ==
    IF ~MapHas(s.lobbies, cid) THEN s
    ELSE LET l == MapGet(s.lobbies, cid)
             s1 == Note([ClearDisconnectTimer(s, l, username) EXCEPT
                            !.lobbyObjs[l].disconnectedPlayers = MapDelete(@, username)],
                        "permanentLeave", l, "", username)
             o == s1.lobbyObjs[l]
         IN IF Len(o.players) = 0 /\ o.status = "IN_PROGRESS" /\ ~o.challengeEnded
            THEN endChallenge(s1, cid, "All players disconnected")
            ELSE IF Len(o.players) = 0 /\ o.status = "WAITING"
            THEN DeleteLobby(s1, cid, "handlePlayerDisconnect")
            ELSE broadcast(s1, cid, "playerLeft", username, NoSocket)

\* handlePlayerDisconnect(username, cid): the grace timer's callback
handlePlayerDisconnect(s, username, cid) ==
    IF ~MapHas(s.lobbies, cid) THEN s
    ELSE LET l == MapGet(s.lobbies, cid)
             s1 == Note([ClearDisconnectTimer(s, l, username) EXCEPT
                            !.lobbyObjs[l].disconnectedPlayers = MapDelete(@, username)],
                        "permanentLeave", l, "", username)
             o == s1.lobbyObjs[l]
             totalPlayers == Len(o.players) + Len(o.disconnectedPlayers)
         IN IF totalPlayers = 0 /\ o.status = "IN_PROGRESS" /\ ~o.challengeEnded
            THEN endChallenge(s1, cid, "All players disconnected")
            ELSE IF totalPlayers = 0 /\ o.status = "WAITING"
            THEN DeleteLobby(s1, cid, "handlePlayerDisconnect")
            ELSE IF Len(o.players) > 0
            THEN broadcast(s1, cid, "playerLeft", username, NoSocket)
            ELSE s1

\* the first (cid, username) in iteration order whose player.socket is ws
BoundTo(s, ws) ==
    LET hits(i) == LET p == s.lobbyObjs[s.lobbies[i].val].players
                   IN {j \in 1..Len(p) : p[j].val.socket = ws}
        regs == {i \in 1..Len(s.lobbies) : hits(i) # {}}
    IN IF regs = {} THEN <<>>
       ELSE LET i == CHOOSE i \in regs : \A k \in regs : i <= k
                j == CHOOSE j \in hits(i) : \A k \in hits(i) : j <= k
            IN <<[cid |-> s.lobbies[i].key, lobby |-> s.lobbies[i].val,
                  username |-> s.lobbyObjs[s.lobbies[i].val].players[j].key]>>

\* schedulePlayerDisconnect(ws): the close handler
schedulePlayerDisconnect(s, ws) ==
    LET b == BoundTo(s, ws)
    IN IF b = <<>> THEN s
       ELSE LET l == b[1].lobby
                username == b[1].username
                player == MapGet(s.lobbyObjs[l].players, username)
                s1 == [s EXCEPT
                         !.lobbyObjs[l].disconnectedPlayers =
                             MapSet(@, username, [playerData |-> player, disconnectTimer |-> TRUE]),
                         !.lobbyObjs[l].players = MapDelete(@, username),
                         !.hist[l].reconnected = @ \ {username},
                         !.hist[l].graceTimers[username] = @ + 1]
                s2 == Note(s1, "disconnect", l, "", username)
            IN broadcast(s2, b[1].cid, "playerDisconnected", username, NoSocket)

\* lines 35-48: create the lobby on the first message for an unseen cid
GetOrCreate(s, cid) ==
    IF MapHas(s.lobbies, cid) THEN s
    ELSE LET l == Len(s.lobbyObjs) + 1
             s1 == [s EXCEPT !.lobbyObjs = Append(@, NewLobby(cid)),
                             !.hist = Append(@, NewHist),
                             !.lobbies = MapSet(@, cid, l)]
         IN resetLobbyInactivityTimer(Note(s1, "created", l, "", ""), cid)

\* a reconnect that starts the participant afresh instead of restoring it
RestoredReset(playerData, ws) == NewPlayer(ws)

\* lines 72-74: the previous data with the new socket
Restored(playerData, ws) == [playerData EXCEPT !.socket = ws]

\* lines 61-100: reconnect, or track a new player, or rebind the socket
Track(s, ws, cid, username) ==
    LET l == MapGet(s.lobbies, cid)
        o == s.lobbyObjs[l]
    IN IF MapHas(o.disconnectedPlayers, username)
       THEN LET d == MapGet(o.disconnectedPlayers, username)
                s1 == [ClearDisconnectTimer(s, l, username) EXCEPT
                         !.lobbyObjs[l].players =
                             MapSet(@, username, Restored(d.playerData, ws)),
                         !.lobbyObjs[l].disconnectedPlayers = MapDelete(@, username),
                         !.hist[l].reconnected = @ \cup {username}]
                s2 == Note(s1, "reconnect", l, "", username)
            IN broadcast(s2, cid, "playerReconnected", username, ws)
       ELSE IF ~MapHas(o.players, username)
       THEN Note([s EXCEPT !.lobbyObjs[l].players = MapSet(@, username, NewPlayer(ws))],
                 "newPlayer", l, "", username)
       ELSE [s EXCEPT !.lobbyObjs[l].players[MapIdx(o.players, username)].val.socket = ws]

\* ------------------------------------------------------ the message switch
caseJoin(s, ws, cid, username) ==
    broadcast(send(s, ws, "lobbyState", username), cid, "playerJoined", username, ws)

AllReady(o) ==
    Len(o.players) > 0 /\ \A i \in 1..Len(o.players) : o.players[i].val.ready

\* lines 171-174: the start guard and the backend call that suspends the handler
StartIfAllReady(s, l) ==
    LET o == s.lobbyObjs[l]
    IN IF AllReady(o) /\ ~o.started
       THEN [s EXCEPT !.lobbyObjs[l].started = TRUE,
                      !.pendingStart = @ \cup {l},
                      !.hist[l].startCalls = @ + 1]
       ELSE s

\* a ready case that flips the flag whatever the status of the lobby
caseReadyAnyStatus(s, cid, username) ==
    LET l == MapGet(s.lobbies, cid)
        i == MapIdx(s.lobbyObjs[l].players, username)
        s1 == [s EXCEPT !.lobbyObjs[l].players[i].val.ready = ~@]
    IN StartIfAllReady(broadcast(s1, cid, "playerReadyToggle", username, NoSocket), l)

caseReady(s, cid, username) ==
    LET l == MapGet(s.lobbies, cid)
        o == s.lobbyObjs[l]
        i == MapIdx(o.players, username)
    IN IF o.status = "WAITING"
       THEN LET s1 == [s EXCEPT !.lobbyObjs[l].players[i].val.ready = ~@]
                s2 == broadcast(s1, cid, "playerReadyToggle", username, NoSocket)
            IN StartIfAllReady(s2, l)
       ELSE s

caseCodeRunning(s, cid, username, running) ==
    LET l == MapGet(s.lobbies, cid)
        i == MapIdx(s.lobbyObjs[l].players, username)
        s1 == [s EXCEPT !.lobbyObjs[l].players[i].val.running = running]
    IN broadcast(s1, cid, IF running THEN "playerCodeRunning" ELSE "playerCodeFinished",
                 username, NoSocket)

caseTestResults(s, cid, username, data) ==
    LET l == MapGet(s.lobbies, cid)
        i == MapIdx(s.lobbyObjs[l].players, username)
    IN IF data.testsPassed # Undefined
       THEN LET s1 == [s EXCEPT !.lobbyObjs[l].players[i].val.testsPassed = data.testsPassed,
                                !.lobbyObjs[l].players[i].val.latestScore = data.testsPassed]
            IN broadcast(s1, cid, "playerTestResults", username, NoSocket)
       ELSE s

caseCodeSubmitted(s, cid, username, data) ==
    LET l == MapGet(s.lobbies, cid)
        i == MapIdx(s.lobbyObjs[l].players, username)
    IN IF data.submittedResults # Undefined /\ data.testsPassed # Undefined
       THEN LET s1 == [s EXCEPT
                         !.lobbyObjs[l].players[i].val.submitted = TRUE,
                         !.lobbyObjs[l].players[i].val.submittedResults = data.submittedResults,
                         !.lobbyObjs[l].players[i].val.submittedTestsPassed = data.testsPassed,
                         !.lobbyObjs[l].players[i].val.latestScore = data.submittedResults,
                         !.hist[l].lastSubmitted[username] = data.testsPassed]
                s2 == broadcast(s1, cid, "playerCodeSubmitted", username, NoSocket)
               IN IF data.testsPassed = FullPass
               THEN broadcast(s2, cid, "canEndChallenge", username, NoSocket)
               ELSE s2
       ELSE s

caseEndChallenge(s, cid, username) ==
    LET o == s.lobbyObjs[MapGet(s.lobbies, cid)]
    IN IF o.status = "IN_PROGRESS" /\ ~o.challengeEnded
       THEN endChallenge(s, cid, "Ended by user")
       ELSE s

\* an eligibility test that is met by any submission
SubmittedOnce(player) == player.submitted

\* line 268 and line 311: player.submittedTestsPassed === 12
PassedAll(player) == player.submittedTestsPassed = FullPass

caseEndChallengeForUser(s, cid, username) ==
    LET l == MapGet(s.lobbies, cid)
        o == s.lobbyObjs[l]
        player == MapGet(o.players, username)
    IN IF o.status = "IN_PROGRESS" /\ ~o.challengeEnded /\ PassedAll(player)
       THEN LET finalScore == OrZero(player.submittedResults)
                s1 == broadcast(s, cid, "playerCompletedAndLeft", username, player.socket)
                s2 == send(s1, player.socket, "challengeEndedForUser", username)
                s3 == [s2 EXCEPT
                         !.lobbyObjs[l].completedPlayers =
                             MapSet(@, username, [finalScore |-> finalScore] @@ player),
                         !.lobbyObjs[l].players = MapDelete(@, username),
                         !.hist[l].reconnected = @ \ {username}]
                s4 == Note(s3, "completed", l, "", username)
            IN IF Len(s4.lobbyObjs[l].players) = 0
               THEN endChallenge(s4, cid, "All players completed")
               ELSE s4
       ELSE IF ~PassedAll(player)
       THEN send(s, player.socket, "cannotEndYet", username)
       ELSE s

Dispatch(s, ws, type, cid, username, data) ==
    CASE type = "join" -> caseJoin(s, ws, cid, username)
      [] type = "ready" -> caseReady(s, cid, username)
      [] type = "codeRunning" -> caseCodeRunning(s, cid, username, TRUE)
      [] type = "codeFinished" -> caseCodeRunning(s, cid, username, FALSE)
      [] type = "testResults" -> caseTestResults(s, cid, username, data)
      [] type = "codeSubmitted" -> caseCodeSubmitted(s, cid, username, data)
      [] type = "endChallenge" -> caseEndChallenge(s, cid, username)
      [] type = "endChallengeForUser" -> caseEndChallengeForUser(s, cid, username)
      [] OTHER -> s

\* a handler without the check on joins to an ended challenge
EndedJoinAllowed(o, type) == FALSE

\* line 53: lobby.challengeEnded && type === 'join'
EndedJoin(o, type) == o.challengeEnded /\ type = "join"

\* lines 35-323: the handler from the lobby lookup on (after the join validation)
HandleMessage(s, ws, type, cid, username, data) ==
    LET s1 == GetOrCreate(s, cid)
        o == s1.lobbyObjs[MapGet(s1.lobbies, cid)]
    IN IF EndedJoin(o, type)
       THEN send(s1, ws, "joinError", username)
       ELSE Dispatch(resetLobbyInactivityTimer(Track(s1, ws, cid, username), cid),
                     ws, type, cid, username, data)

\* ------------------------------------------------------------------ Init
\* ------------------------------------------------- CollaborationStore
\* store.js: sessions of the live-editing feature.  The operations are
\* functions from the store (its three Maps) to the store.  Time is counted
\* in half hours, so that 60 * 60 * 1000 ms is Hour.
MaxSessions == 2
MaxNow == 4
MaxCalls == 5
Hour == 2
UserIds == {"u1", "u2"}
Null == [line |-> 0, column |-> 0]
DefaultCursor == [line |-> 1, column |-> 1]
Cursors == {[line |-> 2, column |-> 1]}

\* Date.prototype.toISOString and new Date(iso): the string carries the
\* hour and the rest separately
toISOString(t) == [hours |-> t \div Hour, rest |-> t % Hour]
DateOf(iso) == iso.hours * Hour + iso.rest

NewCollaborationStore == [sessions |-> <<>>, participants |-> <<>>, typingUsers |-> <<>>]

NewStoreRun ==
    [now |-> 0, uuids |-> 0, calls |-> 0,
     last |-> [op |-> "", sessionId |-> 0, userId |-> ""],
     activity |-> [id \in 1..MaxSessions |-> 0]]

createSession(st, sessionId, language, now) ==
    LET session == [id |-> sessionId, code |-> "", language |-> language,
                    participants |-> <<>>, createdAt |-> toISOString(now),
                    lastModified |-> toISOString(now)]
    IN [st EXCEPT !.sessions = MapSet(@, sessionId, session),
                  !.participants = MapSet(@, sessionId, <<>>),
                  !.typingUsers = MapSet(@, sessionId, <<>>)]

updateSessionCode(st, sessionId, code, now) ==
    IF ~MapHas(st.sessions, sessionId) THEN st
    ELSE [st EXCEPT !.sessions[MapIdx(st.sessions, sessionId)].val =
                        [@ EXCEPT !.code = code, !.lastModified = toISOString(now)]]

deleteSession(st, sessionId) ==
    [st EXCEPT !.sessions = MapDelete(@, sessionId),
               !.participants = MapDelete(@, sessionId),
               !.typingUsers = MapDelete(@, sessionId)]

addParticipant(st, sessionId, userId, userName) ==
    IF ~MapHas(st.sessions, sessionId) THEN st
    ELSE LET user == [id |-> userId, name |-> userName, color |-> "#007ACC",
                      cursor |-> DefaultCursor]
         IN [st EXCEPT !.participants[MapIdx(st.participants, sessionId)].val =
                           MapSet(@, userId, user)]

\* a removeParticipant that leaves the typing status behind
removeParticipantOnly(st, sessionId, userId) ==
    IF ~MapHas(st.sessions, sessionId) THEN st
    ELSE [st EXCEPT !.participants[MapIdx(st.participants, sessionId)].val =
                        MapDelete(@, userId)]

removeParticipant(st, sessionId, userId) ==
    IF ~MapHas(st.sessions, sessionId) THEN st
    ELSE [st EXCEPT !.participants[MapIdx(st.participants, sessionId)].val =
                        MapDelete(@, userId),
                    !.typingUsers[MapIdx(st.typingUsers, sessionId)].val =
                        MapDelete(@, userId)]

updateUserCursor(st, sessionId, userId, cursor) ==
    IF ~MapHas(st.sessions, sessionId) THEN st
    ELSE LET users == MapGet(st.participants, sessionId)
         IN IF ~MapHas(users, userId) THEN st
            ELSE [st EXCEPT !.participants[MapIdx(st.participants, sessionId)].val =
                                MapSet(@, userId, [MapGet(users, userId) EXCEPT !.cursor = cursor])]

setTypingStatus(st, sessionId, userId, isTyping, cursor) ==
    IF ~MapHas(st.sessions, sessionId) THEN st
    ELSE LET users == MapGet(st.participants, sessionId)
         IN IF ~MapHas(users, userId) THEN st
            ELSE LET user == MapGet(users, userId)
                     typingStatus ==
                         [sessionId |-> sessionId, userId |-> userId,
                          userName |-> user.name, isTyping |-> isTyping,
                          cursor |-> IF cursor # Null THEN cursor ELSE user.cursor]
                     i == MapIdx(st.typingUsers, sessionId)
                 IN IF isTyping
                    THEN [st EXCEPT !.typingUsers[i].val = MapSet(@, userId, typingStatus)]
                    ELSE [st EXCEPT !.typingUsers[i].val = MapDelete(@, userId)]

\* the test of cleanup on one session
Stale(st, sessionId, now) ==
    /\ Len(MapGet(st.participants, sessionId)) = 0
    /\ DateOf(MapGet(st.sessions, sessionId).lastModified) < now - Hour

\* cleanup: the loop over this.sessions.entries(), from entry i on; an
\* entry deleted during the iteration is the current one
RECURSIVE cleanupFrom(_, _, _)
cleanupFrom(st, ids, now) ==
    IF ids = <<>> THEN st
    ELSE cleanupFrom(IF Stale(st, Head(ids), now) THEN deleteSession(st, Head(ids)) ELSE st,
                     Tail(ids), now)

cleanup(st, now) ==
    cleanupFrom(st, [i \in 1..Len(st.sessions) |-> st.sessions[i].key], now)

Init ==
    /\ lobbies = <<>>
    /\ lobbyObjs = <<>>
    /\ timers = <<>>
    /\ cleanups = {}
    /\ readyState = <<>>
    /\ pendingJoin = EmptyBag
    /\ pendingStart = {}
    /\ pendingEnd = {}
    /\ msgs = 0
    /\ limit = [msgs |-> MaxMsgs, sockets |-> MaxSockets, lobbies |-> MaxLobbies,
                users |-> {"userA", "userB"}, types |-> Types]
    /\ sent = <<>>
    /\ log = <<>>
    /\ store = NewCollaborationStore
    /\ storeRun = NewStoreRun
    /\ hist = <<>>

\* ------------------------------------------------- a challenge under way
\* States reached from Init by: userA and userB connect (sockets 1 and 2),
\* each sends 'ready' (the first message creates the lobby, the second
\* triggers the backend start call); then either the call is still in
\* flight, or it has returned and userA, or both users, sent
\* codeSubmitted with testsPassed = 12 and submittedResults = 100.
\* The messages of a run of SpecRun start from one of these states.
RunMsgs == 2
RunLobbies == 1

RunningPlayer(ws, submitted) ==
    IF submitted
    THEN [NewPlayer(ws) EXCEPT !.ready = TRUE, !.submitted = TRUE,
                               !.submittedResults = 100,
                               !.submittedTestsPassed = FullPass,
                               !.latestScore = 100]
    ELSE [NewPlayer(ws) EXCEPT !.ready = TRUE]

InitRun ==
    \E stage \in {"starting", "submittedA", "submittedAB"} :
        /\ lobbies = <<[key |-> "abc", val |-> 1]>>
        /\ lobbyObjs = <<[NewLobby("abc") EXCEPT
                            !.players =
                               <<[key |-> "userA", val |-> RunningPlayer(1, stage # "starting")],
                                 [key |-> "userB", val |-> RunningPlayer(2, stage = "submittedAB")]>>,
                            !.status = IF stage = "starting" THEN "WAITING" ELSE "IN_PROGRESS",
                            !.started = TRUE,
                            !.timer = IF stage = "starting" THEN 0 ELSE 1,
                            !.inactivityTimer = (stage = "starting")]>>
        /\ timers = IF stage = "starting" THEN <<>>
                    ELSE <<[lobby |-> 1, cid |-> "abc", interval |-> TRUE,
                            backstop |-> TRUE, expired |-> FALSE]>>
        /\ cleanups = {}
        /\ readyState = <<"OPEN", "OPEN">>
        /\ pendingJoin = EmptyBag
        /\ pendingStart = IF stage = "starting" THEN {1} ELSE {}
        /\ pendingEnd = {}
        /\ msgs = 0
        /\ limit = [msgs |-> RunMsgs, sockets |-> MaxSockets, lobbies |-> RunLobbies,
                    users |-> {"userA", "userB"}, types |-> Types]
        /\ sent = <<>>
        /\ log = <<>>
        /\ store = NewCollaborationStore
        /\ storeRun = NewStoreRun
        /\ hist = <<[NewHist EXCEPT
                        !.startCalls = 1,
                        !.timerStarted = IF stage = "starting" THEN 0 ELSE 1,
                        !.lastSubmitted =
                            [u \in Users |->
                                IF \/ u = "userA" /\ stage # "starting"
                                   \/ u = "userB" /\ stage = "submittedAB"
                                THEN FullPass ELSE 0]]>>

NoData == [testsPassed |-> Undefined, submittedResults |-> Undefined]

Payloads(type) ==
    CASE type = "testResults" ->
            {[testsPassed |-> t, submittedResults |-> Undefined] : t \in {FullPass, Undefined}}
      [] type = "codeSubmitted" ->
            {[testsPassed |-> FullPass, submittedResults |-> r] : r \in ScoreValues}
            \cup {[testsPassed |-> 5, submittedResults |-> 100],
                  [testsPassed |-> FullPass, submittedResults |-> Undefined]}
      [] OTHER -> {NoData}

\* a refused join that goes on into the handler as if it had been allowed
joinRefusedNoReturn(s, ws, cid, username) ==
    HandleMessage(send(Note(s, "refused", 0, "join", username), ws, "joinError", username),
                  ws, "join", cid, username, NoData)

\* lines 26-32: validateChallengeAccess said no: joinError to the requester, return
joinRefused(s, ws, cid, username) ==
    send(Note(s, "refused", 0, "join", username), ws, "joinError", username)

Start(name, type, username) == Note(Cur, name, 0, type, username)

\* a lobby object can still be created for cid, or need not be
CanHandle(cid) == MapHas(lobbies, cid) \/ Len(lobbyObjs) < limit.lobbies

Sockets == 1..Len(readyState)

\* ---------------------------------------------------------------- actions
\* wss.on('connection')
Connect ==
    /\ Len(readyState) < limit.sockets
    /\ Commit([Start("connection", "", "") EXCEPT !.readyState = Append(@, "OPEN")])
    /\ UNCHANGED <<msgs, limit>>

\* ws.on('message') for type 'join': suspends on validateChallengeAccess
ReceiveJoin(ws, cid, username) ==
    /\ readyState[ws] = "OPEN"
    /\ msgs < limit.msgs
    /\ msgs' = msgs + 1
    /\ UNCHANGED limit
    /\ Commit([Start("message", "join", username) EXCEPT
                 !.pendingJoin = @ (+) SetToBag({[ws |-> ws, cid |-> cid, username |-> username]})])

\* the join handler resumes with the result of validateChallengeAccess
ValidateReturn(j, canJoin) ==
    /\ BagIn(j, pendingJoin)
    /\ canJoin => CanHandle(j.cid)
    /\ LET s == [Start("validated", "join", j.username) EXCEPT
                   !.pendingJoin = @ (-) SetToBag({j})]
       IN Commit(IF canJoin
                 THEN HandleMessage(s, j.ws, "join", j.cid, j.username, NoData)
                 ELSE joinRefused(s, j.ws, j.cid, j.username))
    /\ UNCHANGED <<msgs, limit>>

\* ws.on('message') for every other type, up to its first await
Receive(ws, type, cid, username, data) ==
    /\ readyState[ws] = "OPEN"
    /\ msgs < limit.msgs
    /\ type # "join"
    /\ CanHandle(cid)
    /\ msgs' = msgs + 1
    /\ UNCHANGED limit
    /\ Commit(HandleMessage([Start("message", type, username) EXCEPT
                                !.log = Append(@, OnSocket(ws))],
                            ws, type, cid, username, data))

\* payloads the handler cannot use: JSON.parse throws, or cid / username is missing
Unusable == {"unparseable", "incomplete"}

\* a handler that goes on with an unusable payload, for a username of none
handledAnyway(s, ws, kind) == HandleMessage(s, ws, "other", "abc", "", NoData)

\* lines 19-22 and 324-326: the catch logs, the check on cid and username returns
discarded(s, ws, kind) == s

\* ws.on('message') for a payload that does not parse or lacks cid or username
ReceiveUnusable(ws, kind) ==
    /\ readyState[ws] = "OPEN"
    /\ msgs < limit.msgs
    /\ msgs' = msgs + 1
    /\ UNCHANGED limit
    /\ Commit(discarded(Start("message", kind, ""), ws, kind))

\* a continuation that starts the timer only when the backend call succeeded
StartReturnIfOk(l, ok) ==
    /\ l \in pendingStart
    /\ LET cid == lobbyObjs[l].cid
           s == [Start("startReturn", "", "") EXCEPT !.pendingStart = @ \ {l}]
       IN Commit(IF ok
                 THEN startChallengeTimer(broadcast(s, cid, "challengeStarted", "", NoSocket), cid)
                 ELSE s)
    /\ UNCHANGED <<msgs, limit>>

\* the ready handler resumes after startChallengeInBackend
StartReturn(l, ok) ==
    /\ l \in pendingStart
    /\ LET cid == lobbyObjs[l].cid
           s == [Start("startReturn", "", "") EXCEPT !.pendingStart = @ \ {l}]
           s1 == IF ok THEN broadcast(s, cid, "challengeStarted", "", NoSocket) ELSE s
       IN Commit(startChallengeTimer(s1, cid))
    /\ UNCHANGED <<msgs, limit>>

\* endChallenge resumes after the backend call and arms the retention timeout
EndReturn(l, ok) ==
    /\ l \in pendingEnd
    /\ LET cid == lobbyObjs[l].cid
           s == [Start("endReturn", "", "") EXCEPT !.pendingEnd = @ \ {l}]
           s1 == IF ok THEN broadcast(s, cid, "challengeEndedConfirmed", "", NoSocket) ELSE s
       IN Commit([s1 EXCEPT !.cleanups = @ \cup {l}, !.hist[l].cleanupsArmed = @ + 1])
    /\ UNCHANGED <<msgs, limit>>

\* ws.on('close')
Close(ws) ==
    /\ readyState[ws] = "OPEN"
    /\ Commit(schedulePlayerDisconnect(
                [Start("close", "", "") EXCEPT !.readyState[ws] = "CLOSED"], ws))
    /\ UNCHANGED <<msgs, limit>>

\* the 5 s timeout armed by schedulePlayerDisconnect in lobby object l fires
GraceExpire(l, username) ==
    /\ l \in 1..Len(lobbyObjs)
    /\ MapHas(lobbyObjs[l].disconnectedPlayers, username)
    /\ MapGet(lobbyObjs[l].disconnectedPlayers, username).disconnectTimer
    /\ LET i == MapIdx(lobbyObjs[l].disconnectedPlayers, username)
           s == [Start("graceExpire", "", username) EXCEPT
                   !.lobbyObjs[l].disconnectedPlayers[i].val.disconnectTimer = FALSE,
                   !.hist[l].graceTimers[username] = @ - 1]
       IN Commit(handlePlayerDisconnect(s, username, lobbyObjs[l].cid))
    /\ UNCHANGED <<msgs, limit>>

\* the inactivity callback with its status check left out
StillWaitingUnchecked(o) == TRUE

\* line 732: if (lobby.status === 'WAITING'), on the lobby object the closure holds
StillWaiting(o) == o.status = "WAITING"

\* the 3 min timeout armed by resetLobbyInactivityTimer for lobby object l fires
InactivityExpire(l) ==
    /\ l \in 1..Len(lobbyObjs)
    /\ lobbyObjs[l].inactivityTimer
    /\ LET s == [Start("inactivityExpire", "", "") EXCEPT !.lobbyObjs[l].inactivityTimer = FALSE]
           o == lobbyObjs[l]
       IN Commit(IF StillWaiting(o)
                 THEN DeleteLobby(
                        [s EXCEPT !.sent = @ \o Deliveries(s, o.players, "lobbyClosed", "", NoSocket)],
                        o.cid, "inactivity")
                 ELSE s)
    /\ UNCHANGED <<msgs, limit>>

\* Date.now() has reached the endTime of timer t (and of every earlier one)
Expire(s, t) ==
    [s EXCEPT !.timers = [k \in 1..Len(s.timers) |->
                            IF k <= t THEN [s.timers[k] EXCEPT !.expired = TRUE]
                            ELSE s.timers[k]]]

\* one run of the setInterval callback of timer t
Tick(t, expired) ==
    /\ t \in 1..Len(timers)
    /\ timers[t].interval
    /\ timers[t].expired => expired
    /\ LET s == Start("tick", "", "")
           s1 == broadcast(s, timers[t].cid, "timerUpdate", "", NoSocket)
       IN Commit(IF expired
                 THEN endChallenge(ClearInterval(Expire(s1, t), timers[t].lobby),
                                   timers[t].cid, "Timer expired")
                 ELSE s1)
    /\ UNCHANGED <<msgs, limit>>

\* the backup setTimeout of timer t fires
Backstop(t) ==
    /\ t \in 1..Len(timers)
    /\ timers[t].backstop
    /\ LET s == [Expire(Start("backstop", "", ""), t) EXCEPT !.timers[t].backstop = FALSE]
       IN Commit(IF lobbyObjs[timers[t].lobby].timer # 0
                 THEN endChallenge(ClearInterval(s, timers[t].lobby),
                                   timers[t].cid, "Timer expired")
                 ELSE s)
    /\ UNCHANGED <<msgs, limit>>

\* a retention timeout that clears the grace timers and keeps the lobby
CleanupKeeps(l) ==
    /\ l \in cleanups
    /\ LET cid == lobbyObjs[l].cid
           s == [Start("cleanup", "", "") EXCEPT !.cleanups = @ \ {l}]
       IN Commit(IF MapHas(s.lobbies, cid)
                 THEN LET r == MapGet(s.lobbies, cid)
                          d == s.lobbyObjs[r].disconnectedPlayers
                      IN [s EXCEPT
                            !.lobbyObjs[r].disconnectedPlayers =
                               [i \in 1..Len(d) |-> [d[i] EXCEPT !.val.disconnectTimer = FALSE]],
                            !.hist[r].graceTimers =
                               [u \in Users |->
                                   IF MapHas(d, u) /\ MapGet(d, u).disconnectTimer
                                   THEN @[u] - 1 ELSE @[u]]]
                 ELSE s)
    /\ UNCHANGED <<msgs, limit>>

\* the 30 s retention timeout armed by the endChallenge of lobby object l fires
Cleanup(l) ==
    /\ l \in cleanups
    /\ LET cid == lobbyObjs[l].cid
           s == [Start("cleanup", "", "") EXCEPT !.cleanups = @ \ {l}]
           s1 == IF MapHas(s.lobbies, cid)
                 THEN LET r == MapGet(s.lobbies, cid)
                          d == s.lobbyObjs[r].disconnectedPlayers
                      IN [s EXCEPT
                            !.lobbyObjs[r].disconnectedPlayers =
                               [i \in 1..Len(d) |-> [d[i] EXCEPT !.val.disconnectTimer = FALSE]],
                            !.hist[r].graceTimers =
                               [u \in Users |->
                                   IF MapHas(d, u) /\ MapGet(d, u).disconnectTimer
                                   THEN @[u] - 1 ELSE @[u]]]
                 ELSE s
       IN Commit(DeleteLobby(s1, cid, "cleanup"))
    /\ UNCHANGED <<msgs, limit>>

Next ==
    \/ Connect
    \/ \E ws \in Sockets, cid \in Cids, u \in limit.users : ReceiveJoin(ws, cid, u)
    \/ \E j \in BagToSet(pendingJoin), canJoin \in BOOLEAN : ValidateReturn(j, canJoin)
    \/ \E ws \in Sockets, type \in limit.types, cid \in Cids, u \in limit.users :
          \E data \in Payloads(type) : Receive(ws, type, cid, u, data)
    \/ \E ws \in Sockets, kind \in Unusable : ReceiveUnusable(ws, kind)
    \/ \E l \in pendingStart, ok \in BOOLEAN : StartReturn(l, ok)
    \/ \E l \in pendingEnd, ok \in BOOLEAN : EndReturn(l, ok)
    \/ \E ws \in Sockets : Close(ws)
    \/ \E l \in 1..Len(lobbyObjs), u \in Users : GraceExpire(l, u)
    \/ \E l \in 1..Len(lobbyObjs) : InactivityExpire(l)
    \/ \E t \in 1..Len(timers), expired \in BOOLEAN : Tick(t, expired)
    \/ \E t \in 1..Len(timers) : Backstop(t)
    \/ \E l \in cleanups : Cleanup(l)

Spec == Init /\ [][Next]_vars

\* the steps of Next over the two connections of InitRun (no further one is accepted)
NextRun ==
    \/ \E ws \in Sockets, cid \in Cids, u \in limit.users : ReceiveJoin(ws, cid, u)
    \/ \E j \in BagToSet(pendingJoin), canJoin \in BOOLEAN : ValidateReturn(j, canJoin)
    \/ \E ws \in Sockets, type \in limit.types, cid \in Cids, u \in limit.users :
          \E data \in Payloads(type) : Receive(ws, type, cid, u, data)
    \/ \E l \in pendingStart, ok \in BOOLEAN : StartReturn(l, ok)
    \/ \E l \in pendingEnd, ok \in BOOLEAN : EndReturn(l, ok)
    \/ \E ws \in Sockets : Close(ws)
    \/ \E l \in 1..Len(lobbyObjs), u \in Users : GraceExpire(l, u)
    \/ \E l \in 1..Len(lobbyObjs) : InactivityExpire(l)
    \/ \E t \in 1..Len(timers), expired \in BOOLEAN : Tick(t, expired)
    \/ \E t \in 1..Len(timers) : Backstop(t)
    \/ \E l \in cleanups : Cleanup(l)

SpecRun == InitRun /\ [][NextRun]_vars

\* ------------------------------------------------- disposal after the end
\* Runs from a challenge under way in which userA and userB have both
\* submitted: end requests arrive, connections close, grace timers expire,
\* the tick and the backstop fire; a new lobby object can be created under
\* the cid once the first one is removed.  The scheduling is the event
\* loop's: a backend end call that was issued returns or fails, and a
\* retention timeout that was armed fires.
RetireMsgs == 2
RetireLobbies == 2

InitRetire ==
    /\ lobbies = <<[key |-> "abc", val |-> 1]>>
    /\ lobbyObjs = <<[NewLobby("abc") EXCEPT
                        !.players =
                           <<[key |-> "userA", val |-> RunningPlayer(1, TRUE)],
                             [key |-> "userB", val |-> RunningPlayer(2, TRUE)]>>,
                        !.status = "IN_PROGRESS",
                        !.started = TRUE,
                        !.timer = 1]>>
    /\ timers = <<[lobby |-> 1, cid |-> "abc", interval |-> TRUE,
                   backstop |-> TRUE, expired |-> FALSE]>>
    /\ cleanups = {}
    /\ readyState = <<"OPEN", "OPEN">>
    /\ pendingJoin = EmptyBag
    /\ pendingStart = {}
    /\ pendingEnd = {}
    /\ msgs = 0
    /\ limit = [msgs |-> RetireMsgs, sockets |-> MaxSockets, lobbies |-> RetireLobbies,
                users |-> {"userA", "userB"},
                types |-> {"endChallenge", "endChallengeForUser"}]
    /\ sent = <<>>
    /\ log = <<>>
    /\ store = NewCollaborationStore
    /\ storeRun = NewStoreRun
    /\ hist = <<[NewHist EXCEPT
                    !.startCalls = 1, !.timerStarted = 1,
                    !.lastSubmitted = [u \in Users |->
                                          IF u \in {"userA", "userB"} THEN FullPass ELSE 0]]>>

NextRetire ==
    \/ \E ws \in Sockets, type \in limit.types, cid \in Cids, u \in limit.users :
          Receive(ws, type, cid, u, NoData)
    \/ \E l \in pendingEnd, ok \in BOOLEAN : EndReturn(l, ok)
    \/ \E ws \in Sockets : Close(ws)
    \/ \E l \in 1..Len(lobbyObjs), u \in Users : GraceExpire(l, u)
    \/ \E l \in 1..Len(lobbyObjs) : InactivityExpire(l)
    \/ \E t \in 1..Len(timers), expired \in BOOLEAN : Tick(t, expired)
    \/ \E t \in 1..Len(timers) : Backstop(t)
    \/ \E l \in cleanups : Cleanup(l)

SpecRetire ==
    /\ InitRetire /\ [][NextRetire]_vars
    /\ WF_vars(\E l \in pendingEnd, ok \in BOOLEAN : EndReturn(l, ok))
    /\ WF_vars(\E l \in cleanups : Cleanup(l))

\* ------------------------------------------------ one user, three sockets
\* Runs from the start in which a single username sends only codeRunning,
\* over up to three connections, and no challenge is started: the steps are
\* those steps of Next that such a run can take.
StaleMsgs == 3
StaleSockets == 3

InitStale ==
    /\ lobbies = <<>>
    /\ lobbyObjs = <<>>
    /\ timers = <<>>
    /\ cleanups = {}
    /\ readyState = <<>>
    /\ pendingJoin = EmptyBag
    /\ pendingStart = {}
    /\ pendingEnd = {}
    /\ msgs = 0
    /\ limit = [msgs |-> StaleMsgs, sockets |-> StaleSockets, lobbies |-> MaxLobbies,
                users |-> {"userA"}, types |-> {"codeRunning"}]
    /\ sent = <<>>
    /\ log = <<>>
    /\ store = NewCollaborationStore
    /\ storeRun = NewStoreRun
    /\ hist = <<>>

NextStale ==
    \/ Connect
    \/ \E ws \in Sockets, cid \in Cids : Receive(ws, "codeRunning", cid, "userA", NoData)
    \/ \E ws \in Sockets : Close(ws)
    \/ \E l \in 1..Len(lobbyObjs) : GraceExpire(l, "userA")
    \/ \E l \in 1..Len(lobbyObjs) : InactivityExpire(l)

SpecStale == InitStale /\ [][NextStale]_vars

\* ---------------------------------------------------- two challenge ids
\* States of a challenge 'abc' under way in which userA and userB are active
\* on sockets 1 and 2 and userC, on socket 3, has either completed early or
\* lost its connection and is inside its grace window; a fourth connection
\* was opened and closed without sending anything.  In a run, messages
\* (join and codeRunning) arrive for 'abc' and for a second challenge id,
\* connections close, grace timers expire and the tick fires.
CastMsgs == 2
CastLobbies == 2
CastCids == {"abc", "xyz"}

InitCast ==
    \E role \in {"completed", "pending"} :
        /\ lobbies = <<[key |-> "abc", val |-> 1]>>
        /\ lobbyObjs = <<[NewLobby("abc") EXCEPT
                            !.players =
                               <<[key |-> "userA", val |-> RunningPlayer(1, FALSE)],
                                 [key |-> "userB", val |-> RunningPlayer(2, FALSE)]>>,
                            !.completedPlayers =
                               IF role = "completed"
                               THEN <<[key |-> "userC",
                                       val |-> [finalScore |-> 100] @@ RunningPlayer(3, TRUE)]>>
                               ELSE <<>>,
                            !.disconnectedPlayers =
                               IF role = "pending"
                               THEN <<[key |-> "userC",
                                       val |-> [playerData |-> RunningPlayer(3, FALSE),
                                                disconnectTimer |-> TRUE]]>>
                               ELSE <<>>,
                            !.status = "IN_PROGRESS",
                            !.started = TRUE,
                            !.timer = 1]>>
        /\ timers = <<[lobby |-> 1, cid |-> "abc", interval |-> TRUE,
                       backstop |-> TRUE, expired |-> FALSE]>>
        /\ cleanups = {}
        /\ readyState = <<"OPEN", "OPEN",
                          IF role = "completed" THEN "OPEN" ELSE "CLOSED", "CLOSED">>
        /\ pendingJoin = EmptyBag
        /\ pendingStart = {}
        /\ pendingEnd = {}
        /\ msgs = 0
        /\ limit = [msgs |-> CastMsgs, sockets |-> 4, lobbies |-> CastLobbies,
                    users |-> Users, types |-> {"codeRunning"}]
        /\ sent = <<>>
        /\ log = <<>>
        /\ store = NewCollaborationStore
        /\ storeRun = NewStoreRun
        /\ hist = <<[NewHist EXCEPT
                        !.startCalls = 1, !.timerStarted = 1,
                        !.lastSubmitted = [u \in Users |->
                                              IF u = "userC" /\ role = "completed"
                                              THEN FullPass ELSE 0],
                        !.graceTimers = [u \in Users |->
                                            IF u = "userC" /\ role = "pending"
                                            THEN 1 ELSE 0]]>>

NextCast ==
    \/ \E ws \in Sockets, cid \in CastCids, u \in limit.users : ReceiveJoin(ws, cid, u)
    \/ \E j \in BagToSet(pendingJoin), canJoin \in BOOLEAN : ValidateReturn(j, canJoin)
    \/ \E ws \in Sockets, type \in limit.types, cid \in CastCids, u \in limit.users :
          Receive(ws, type, cid, u, NoData)
    \/ \E ws \in Sockets : Close(ws)
    \/ \E l \in 1..Len(lobbyObjs), u \in Users : GraceExpire(l, u)
    \/ \E t \in 1..Len(timers) : Tick(t, FALSE)

SpecCast == InitCast /\ [][NextCast]_vars

\* ------------------------------------------------ after an early finish
\* The state of a challenge under way after userA, on socket 1, submitted
\* 100 with 12 passed tests and ended the challenge for itself, userB being
\* active on socket 2.  In a run both users send codeSubmitted and
\* endChallengeForUser, connections close, grace timers expire, the tick
\* fires and the backend end call returns.
AgainMsgs == 2

InitAgain ==
    /\ lobbies = <<[key |-> "abc", val |-> 1]>>
    /\ lobbyObjs = <<[NewLobby("abc") EXCEPT
                        !.players = <<[key |-> "userB", val |-> RunningPlayer(2, FALSE)]>>,
                        !.completedPlayers =
                           <<[key |-> "userA",
                              val |-> [finalScore |-> 100] @@ RunningPlayer(1, TRUE)]>>,
                        !.status = "IN_PROGRESS",
                        !.started = TRUE,
                        !.timer = 1]>>
    /\ timers = <<[lobby |-> 1, cid |-> "abc", interval |-> TRUE,
                   backstop |-> TRUE, expired |-> FALSE]>>
    /\ cleanups = {}
    /\ readyState = <<"OPEN", "OPEN">>
    /\ pendingJoin = EmptyBag
    /\ pendingStart = {}
    /\ pendingEnd = {}
    /\ msgs = 0
    /\ limit = [msgs |-> AgainMsgs, sockets |-> MaxSockets, lobbies |-> RunLobbies,
                users |-> {"userA", "userB"},
                types |-> {"codeSubmitted", "endChallengeForUser"}]
    /\ sent = <<>>
    /\ log = <<>>
    /\ store = NewCollaborationStore
    /\ storeRun = NewStoreRun
    /\ hist = <<[NewHist EXCEPT
                    !.startCalls = 1, !.timerStarted = 1,
                    !.lastSubmitted = [u \in Users |-> IF u = "userA" THEN FullPass ELSE 0]]>>

NextAgain ==
    \/ \E ws \in Sockets, type \in limit.types, cid \in Cids, u \in limit.users :
          \E data \in Payloads(type) : Receive(ws, type, cid, u, data)
    \/ \E l \in pendingEnd, ok \in BOOLEAN : EndReturn(l, ok)
    \/ \E ws \in Sockets : Close(ws)
    \/ \E l \in 1..Len(lobbyObjs), u \in Users : GraceExpire(l, u)
    \/ \E t \in 1..Len(timers), expired \in BOOLEAN : Tick(t, expired)

SpecAgain == InitAgain /\ [][NextAgain]_vars

\* ------------------------------------------------- ranking at finalize
\* States of a challenge under way in which userA, userB and userC, bound
\* to sockets 1, 2 and 3, are each active or completed (at least one is
\* active), in any order of the two tables, with any submitted score of
\* RankScores.  In a run each user sends end requests on its own socket and
\* the timers fire.
RankMsgs == 2
RankScores == {0, 50, 100}

SocketOf(u) == CASE u = "userA" -> 1 [] u = "userB" -> 2 [] OTHER -> 3

\* an active record: ready, and with its last submission if it has a score
RankPlayer(ws, score) ==
    IF score = 0 THEN [NewPlayer(ws) EXCEPT !.ready = TRUE]
    ELSE [NewPlayer(ws) EXCEPT !.ready = TRUE, !.submitted = TRUE,
                               !.submittedResults = score,
                               !.submittedTestsPassed = FullPass,
                               !.latestScore = score]

\* a completed record: the record at the time of endChallengeForUser, plus finalScore
RankCompleted(ws, score) ==
    [finalScore |-> score] @@
    [NewPlayer(ws) EXCEPT !.ready = TRUE, !.submitted = TRUE,
                          !.submittedResults = score,
                          !.submittedTestsPassed = FullPass,
                          !.latestScore = score]

InitRank ==
    \E order \in {f \in [1..3 -> Users] : \A i, j \in 1..3 : f[i] = f[j] => i = j},
       completed \in SUBSET Users, score \in [Users -> RankScores] :
        LET act == SelectSeq(order, LAMBDA u : u \notin completed)
            com == SelectSeq(order, LAMBDA u : u \in completed)
        IN /\ completed # Users
           /\ lobbies = <<[key |-> "abc", val |-> 1]>>
           /\ lobbyObjs = <<[NewLobby("abc") EXCEPT
                               !.players = [i \in 1..Len(act) |->
                                   [key |-> act[i],
                                    val |-> RankPlayer(SocketOf(act[i]), score[act[i]])]],
                               !.completedPlayers = [i \in 1..Len(com) |->
                                   [key |-> com[i],
                                    val |-> RankCompleted(SocketOf(com[i]), score[com[i]])]],
                               !.status = "IN_PROGRESS",
                               !.started = TRUE,
                               !.timer = 1]>>
           /\ timers = <<[lobby |-> 1, cid |-> "abc", interval |-> TRUE,
                          backstop |-> TRUE, expired |-> FALSE]>>
           /\ cleanups = {}
           /\ readyState = <<"OPEN", "OPEN", "OPEN">>
           /\ pendingJoin = EmptyBag
           /\ pendingStart = {}
           /\ pendingEnd = {}
           /\ msgs = 0
           /\ limit = [msgs |-> RankMsgs, sockets |-> 3, lobbies |-> 1,
                       users |-> Users, types |-> {"endChallenge", "endChallengeForUser"}]
           /\ sent = <<>>
           /\ log = <<>>
           /\ store = NewCollaborationStore
           /\ storeRun = NewStoreRun
           /\ hist = <<[NewHist EXCEPT
                           !.startCalls = 1, !.timerStarted = 1,
                           !.lastSubmitted = [u \in Users |->
                                                 IF u \in completed \/ score[u] # 0
                                                 THEN FullPass ELSE 0]]>>

NextRank ==
    \/ \E type \in limit.types, cid \in Cids, u \in limit.users :
          Receive(SocketOf(u), type, cid, u, NoData)
    \/ \E l \in pendingEnd, ok \in BOOLEAN : EndReturn(l, ok)
    \/ \E t \in 1..Len(timers), expired \in BOOLEAN : Tick(t, expired)
    \/ \E t \in 1..Len(timers) : Backstop(t)

SpecRank == InitRank /\ [][NextRank]_vars

\* ------------------------------------------------------------ vocabulary
LobbyIds == 1..Len(lobbyObjs)
Registered(l) == MapHas(lobbies, lobbyObjs[l].cid) /\ MapGet(lobbies, lobbyObjs[l].cid) = l
Active(l) == MapKeys(lobbyObjs[l].players)
Pending(l) == MapKeys(lobbyObjs[l].disconnectedPlayers)
Completed(l) == MapKeys(lobbyObjs[l].completedPlayers)
\* the step is the run of a message handler (from its entry or after the join validation)
MessageStep == log' # <<>> /\ log'[1].ev \in {"message", "validated"}

\* C1 (as claimed): in every lobby a username is in at most one of the
\* active, disconnected-pending and completed sets.
C1_OneSetPerUsername ==
    \A l \in LobbyIds :
        /\ Active(l) \cap Pending(l) = {}
        /\ Active(l) \cap Completed(l) = {}
        /\ Pending(l) \cap Completed(l) = {}

\* C5: for every lobby object the finalize side effects happen exactly once
\* when it is finalized and never otherwise: one challengeEnded broadcast
\* and one backend endChallenge call as soon as challengeEnded is set, one
\* retention timeout armed once that call has returned or failed; further
\* finalize attempts add nothing.
C5_FinalizeOnce ==
    \A l \in LobbyIds :
        LET ended == lobbyObjs[l].challengeEnded
        IN /\ hist[l].endedBroadcasts = IF ended THEN 1 ELSE 0
           /\ hist[l].endCalls = IF ended THEN 1 ELSE 0
           /\ hist[l].cleanupsArmed = IF ended /\ l \notin pendingEnd THEN 1 ELSE 0
           /\ l \in pendingEnd => ended

\* a finalize attempt (backstop timeout) that found the lobby already ended
C5_Witness ==
    /\ log # <<>> /\ log[1].ev = "backstop"
    /\ \A i \in 1..Len(log) : log[i].type # "challengeEnded"
    /\ \E l \in LobbyIds : Registered(l) /\ lobbyObjs[l].challengeEnded
                              /\ hist[l].endCalls = 1

Removed(l) == Registered(l) /\ ~Registered(l)'
Total(o) == Len(o.players) + Len(o.disconnectedPlayers)

SameButSocket(p, q) == [p EXCEPT !.socket = NoSocket] = [q EXCEPT !.socket = NoSocket]

\* C7: the record a close moves to the disconnected-pending set is the
\* active record as it was just before the close; it does not change while
\* it is pending; and a join of that username handled while it is pending
\* puts it back in the active set with ready, running, testsPassed,
\* submitted, submittedResults, submittedTestsPassed and latestScore as they
\* were before the close, bound to the socket of the join.
C7_ReconnectRestores ==
    [][\A l \in LobbyIds : \A u \in Users :
          LET o == lobbyObjs[l]
              n == lobbyObjs'[l]
          IN /\ (u \in Active(l) /\ u \in MapKeys(n.disconnectedPlayers))
                   => MapGet(n.disconnectedPlayers, u).playerData = MapGet(o.players, u)
             /\ (u \in Pending(l) /\ u \in MapKeys(n.disconnectedPlayers))
                   => MapGet(n.disconnectedPlayers, u).playerData
                        = MapGet(o.disconnectedPlayers, u).playerData
             /\ (/\ u \in Pending(l)
                 /\ Registered(l) /\ ~o.challengeEnded
                 /\ log'[1] = Event("validated", 0, "join", u)
                 /\ \E i \in 1..Len(sent') : sent'[i].type = "lobbyState")
                   => /\ u \in MapKeys(n.players)
                      /\ u \notin MapKeys(n.disconnectedPlayers)
                      /\ SameButSocket(MapGet(n.players, u),
                                       MapGet(o.disconnectedPlayers, u).playerData)
                      /\ \E i \in 1..Len(sent') :
                            /\ sent'[i].type = "lobbyState"
                            /\ sent'[i].to = MapGet(n.players, u).socket]_vars

\* userA, ready and with a submitted score, has just been restored by a
\* join on another socket than the one it was bound to
C7_Witness ==
    /\ log # <<>> /\ log[1] = Event("validated", 0, "join", "userA")
    /\ \E i \in 1..Len(log) : log[i].ev = "reconnect" /\ log[i].username = "userA"
    /\ \E l \in LobbyIds :
          /\ Registered(l) /\ "userA" \in Active(l)
          /\ MapGet(lobbyObjs[l].players, "userA").ready
          /\ MapGet(lobbyObjs[l].players, "userA").submittedResults = 100
          /\ MapGet(lobbyObjs[l].players, "userA").socket = 2

Broadcasts(lg, l, type, u) ==
    Cardinality({i \in 1..Len(lg) :
                    /\ lg[i].ev = "broadcast" /\ lg[i].lobby = l
                    /\ lg[i].type = type /\ lg[i].username = u})

\* C8 (as claimed): a reconnect of a disconnected-pending username
\* broadcasts exactly one playerReconnected; from then on, until that
\* username disconnects again (or completes), no playerLeft is broadcast
\* for it in that lobby and its record stays in the lobby.
C8_NoLeaveAfterReconnect ==
    [][\A l \in LobbyIds : \A u \in Users :
          /\ (u \in Pending(l) /\ u \in MapKeys(lobbyObjs'[l].players))
                => Broadcasts(log', l, "playerReconnected", u) = 1
          /\ (u \in hist[l].reconnected /\ Registered(l))
                => /\ Broadcasts(log', l, "playerLeft", u) = 0
                   /\ u \in MapKeys(lobbyObjs'[l].players)
                          \cup MapKeys(lobbyObjs'[l].disconnectedPlayers)
                          \cup MapKeys(lobbyObjs'[l].completedPlayers)]_vars

\* the list the ranking is made from: the active table, then the completed table
Concatenation(o) ==
    [i \in 1..Len(o.players) |->
        [username |-> o.players[i].key,
         score |-> IF o.players[i].val.submittedResults = Undefined THEN 0
                   ELSE o.players[i].val.submittedResults]]
    \o
    [i \in 1..Len(o.completedPlayers) |->
        [username |-> o.completedPlayers[i].key,
         score |-> o.completedPlayers[i].val.finalScore]]

\* out is input stable-sorted by score descending, with ranks 1, 2, ...
IsStableRanking(input, out) ==
    LET n == Len(input)
    IN /\ Len(out) = n
       /\ \A i \in 1..n : out[i].rank = i
       /\ \A i, j \in 1..n : i < j => out[i].score >= out[j].score
       /\ \E p \in [1..n -> 1..n] :
             /\ \A i, j \in 1..n : p[i] = p[j] => i = j
             /\ \A i \in 1..n : /\ out[i].username = input[p[i]].username
                                /\ out[i].score = input[p[i]].score
             /\ \A i, j \in 1..n : (i < j /\ out[i].score = out[j].score) => p[i] < p[j]

\* C9: when a lobby is finalized, the finalScores of its challengeEnded
\* broadcast are the active participants (score submittedResults, default
\* 0) in table order followed by the completed participants (score
\* finalScore) in table order, stable-sorted by score descending: scores
\* non-increasing, equal scores in concatenation order, the i-th entry
\* carrying rank i.
C9_StableDescendingRanking ==
    [][\A l \in LobbyIds :
          (~lobbyObjs[l].challengeEnded /\ lobbyObjs'[l].challengeEnded)
             => /\ IsStableRanking(Concatenation(lobbyObjs'[l]), hist'[l].finalScores)
                /\ Broadcasts(log', l, "challengeEnded", "") = 1]_vars

\* a finalize has just ranked three participants whose table order was not
\* the score order, with an active and a completed participant on equal score
C9_Witness ==
    \E l \in LobbyIds :
        LET in == hist[l].allPlayers
            fs == hist[l].finalScores
        IN /\ lobbyObjs[l].challengeEnded
           /\ Broadcasts(log, l, "challengeEnded", "") = 1
           /\ Len(fs) = 3
           /\ in[1].score < in[3].score
           /\ \E i, j \in 1..3 : /\ in[i].status = "active" /\ in[j].status = "completed"
                                 /\ in[i].score = in[j].score
                                 /\ in[i].username # in[j].username

\* C2 (as claimed): the status of a lobby object never moves backward: not
\* from ENDED to IN_PROGRESS or WAITING, not from IN_PROGRESS to WAITING.
C2_StatusNeverBackward ==
    [][\A l \in LobbyIds :
          /\ lobbyObjs[l].status = "ENDED" => lobbyObjs'[l].status = "ENDED"
          /\ lobbyObjs[l].status = "IN_PROGRESS" => lobbyObjs'[l].status # "WAITING"]_vars

\* C3 (as claimed): once challengeEnded is set, no message handler changes,
\* adds or removes a participant record of that lobby.
C3_NoMutationAfterEnd ==
    [][MessageStep =>
          \A l \in LobbyIds :
              lobbyObjs[l].challengeEnded =>
                  /\ lobbyObjs'[l].players = lobbyObjs[l].players
                  /\ lobbyObjs'[l].disconnectedPlayers = lobbyObjs[l].disconnectedPlayers
                  /\ lobbyObjs'[l].completedPlayers = lobbyObjs[l].completedPlayers]_vars

\* C4 (as claimed): for one lobby the backend start call, and the
\* timerStarted broadcast with the creation of the challenge timer, each
\* occur at most once.
C4_StartAtMostOnce ==
    \A l \in LobbyIds : hist[l].startCalls <= 1 /\ hist[l].timerStarted <= 1

TimersOf(l) == {t \in 1..Len(timers) : timers[t].lobby = l}

\* C10 (as claimed): every lobby that enters IN_PROGRESS is ENDED, at the
\* latest, once the backstop timeout of every challenge timer created for
\* it has fired.
C10_BackstopFinalizes ==
    \A l \in LobbyIds :
        (/\ TimersOf(l) # {}
         /\ \A t \in TimersOf(l) : ~timers[t].backstop)
            => lobbyObjs[l].status = "ENDED"

\* the step is the expiry of the grace timer of username u in lobby object l
GraceStep(l, u) ==
    /\ log' # <<>> /\ log'[1] = Event("graceExpire", 0, "", u)
    /\ u \in Pending(l)
    /\ MapGet(lobbyObjs[l].disconnectedPlayers, u).disconnectTimer
    /\ ~MapHas(lobbyObjs'[l].disconnectedPlayers, u)

\* C11: when the grace timer of the last participant of a registered
\* IN_PROGRESS lobby fires (nobody active, nobody else disconnected-pending,
\* challengeEnded not set), that expiry finalizes the lobby: status ENDED,
\* challengeEnded set, one challengeEnded broadcast with reason
\* 'All players disconnected', the backend call in flight.
C11_LastGraceExpiryFinalizes ==
    [][\A l \in LobbyIds : \A u \in Users :
          (/\ GraceStep(l, u)
           /\ Registered(l)
           /\ lobbyObjs[l].status = "IN_PROGRESS" /\ ~lobbyObjs[l].challengeEnded
           /\ Active(l) = {} /\ Pending(l) = {u})
             => /\ lobbyObjs'[l].status = "ENDED"
                /\ lobbyObjs'[l].challengeEnded
                /\ hist'[l].reason = "All players disconnected"
                /\ Broadcasts(log', l, "challengeEnded", "") = 1
                /\ l \in pendingEnd'
                /\ Registered(l)']_vars

\* the grace expiry of userB, the last participant after userA completed,
\* has just ended the challenge
C11_Witness ==
    /\ log # <<>> /\ log[1] = Event("graceExpire", 0, "", "userB")
    /\ \E l \in LobbyIds :
          /\ Registered(l) /\ lobbyObjs[l].status = "ENDED"
          /\ hist[l].reason = "All players disconnected"
          /\ Completed(l) = {"userA"}
          /\ Active(l) = {} /\ Pending(l) = {}

\* the number of entries of sent that deliver type to connection ws
SentTo(snt, type, ws) ==
    Cardinality({i \in 1..Len(snt) : snt[i].type = type /\ snt[i].to = ws})

\* C12: when the inactivity timer of a registered WAITING lobby fires,
\* lobbyClosed is sent once for every active participant whose connection
\* is open, to that connection, nothing else is sent, and the lobby is
\* removed from the registry.
C12_InactivityCloses ==
    [][\A l \in LobbyIds :
          (/\ log' # <<>> /\ log'[1].ev = "inactivityExpire"
           /\ lobbyObjs[l].inactivityTimer /\ ~lobbyObjs'[l].inactivityTimer
           /\ Registered(l)
           /\ lobbyObjs[l].status = "WAITING")
             => /\ ~MapHas(lobbies', lobbyObjs[l].cid)
                /\ \A i \in 1..Len(sent') : sent'[i].type = "lobbyClosed"
                /\ \A ws \in Sockets :
                      SentTo(sent', "lobbyClosed", ws) =
                         IF readyState[ws] = "OPEN"
                         THEN Cardinality({u \in Active(l) :
                                 MapGet(lobbyObjs[l].players, u).socket = ws})
                         ELSE 0]_vars

\* the inactivity timeout has just closed a lobby of two active
\* participants, one on an open and one on a closed connection
C12_Witness ==
    /\ log # <<>> /\ log[1].ev = "inactivityExpire"
    /\ Len(sent) = 1 /\ sent[1].type = "lobbyClosed"
    /\ \E l \in LobbyIds :
          /\ ~Registered(l)
          /\ Cardinality(Active(l)) = 2
          /\ \E u \in Active(l) :
                readyState[MapGet(lobbyObjs[l].players, u).socket] = "CLOSED"

\* C13: endChallengeForUser from an active participant u whose
\* submittedTestsPassed is 12, in a registered IN_PROGRESS lobby that has
\* not ended, moves u from the active to the completed set with finalScore
\* equal to its submittedResults and the rest of its record unchanged; the
\* lobby is finalized by this request if and only if no participant is
\* active afterwards, and otherwise stays IN_PROGRESS.
C13_EndForUserCompletes ==
    [][\A l \in LobbyIds : \A u \in Users :
          (/\ log' # <<>> /\ log'[1] = Event("message", 0, "endChallengeForUser", u)
           /\ Registered(l)
           /\ lobbyObjs[l].status = "IN_PROGRESS" /\ ~lobbyObjs[l].challengeEnded
           /\ u \in Active(l)
           /\ MapGet(lobbyObjs[l].players, u).submittedTestsPassed = FullPass)
             => LET p == MapGet(lobbyObjs[l].players, u)
                    n == lobbyObjs'[l]
                IN /\ MapKeys(n.players) = Active(l) \ {u}
                   /\ MapHas(n.completedPlayers, u)
                   /\ MapGet(n.completedPlayers, u).finalScore = p.submittedResults
                   /\ \A f \in {"ready", "running", "testsPassed", "submitted",
                                "submittedResults", "submittedTestsPassed", "latestScore"} :
                         MapGet(n.completedPlayers, u)[f] = p[f]
                   /\ n.challengeEnded <=> (n.players = <<>>)
                   /\ n.status = IF n.players = <<>> THEN "ENDED" ELSE "IN_PROGRESS"
                   /\ Broadcasts(log', l, "challengeEnded", "")
                         = IF n.players = <<>> THEN 1 ELSE 0]_vars

\* userA has just completed with its score of 100 while userB stays active:
\* the challenge goes on
C13_Witness ==
    /\ log # <<>> /\ log[1] = Event("message", 0, "endChallengeForUser", "userA")
    /\ \E l \in LobbyIds :
          /\ Registered(l) /\ lobbyObjs[l].status = "IN_PROGRESS"
          /\ ~lobbyObjs[l].challengeEnded
          /\ Active(l) = {"userB"}
          /\ Completed(l) = {"userA"}
          /\ MapGet(lobbyObjs[l].completedPlayers, "userA").finalScore = 100

\* C14 (as claimed): at a step where the status of a lobby becomes
\* IN_PROGRESS, the lobby has at least one active participant and every
\* active participant is ready.
C14_StartsOnlyAllReady ==
    [][\A l \in LobbyIds :
          (lobbyObjs[l].status # "IN_PROGRESS" /\ lobbyObjs'[l].status = "IN_PROGRESS")
             => AllReady(lobbyObjs'[l])]_vars

\* every part of the program state but the joins in flight and the sends
LobbyState == <<lobbies, lobbyObjs, timers, cleanups, readyState, pendingStart,
                pendingEnd, hist>>

\* C15: a join that validateChallengeAccess does not allow is answered
\* with one joinError to the requesting connection (delivered if that
\* connection is still open), nothing else is sent or broadcast, and the
\* registry, every lobby, every participant, binding and timer stay as
\* they were.
C15_RefusedJoinChangesNothing ==
    [][(\E i \in 1..Len(log') : log'[i].ev = "refused")
          => /\ LobbyState' = LobbyState
             /\ \A i \in 1..Len(log') : log'[i].ev # "broadcast"
             /\ \E j \in BagToSet(pendingJoin) :
                   /\ pendingJoin' = pendingJoin (-) SetToBag({j})
                   /\ sent' = IF readyState[j.ws] = "OPEN"
                              THEN <<[type |-> "joinError", to |-> j.ws,
                                      username |-> j.username]>>
                              ELSE <<>>]_vars

\* a join of userB has just been refused on an open connection while the
\* lobby of that cid exists with userA in it: userB is not in the lobby
C15_Witness ==
    /\ Len(log) = 2 /\ log[2] = Event("refused", 0, "join", "userB")
    /\ Len(sent) = 1 /\ sent[1].type = "joinError"
    /\ \E l \in LobbyIds :
          /\ Registered(l)
          /\ Active(l) = {"userA"} /\ Pending(l) = {} /\ Completed(l) = {}

\* C16 (as claimed): a message whose type is none of the eight known types
\* is ignored: it changes neither the registry nor any lobby, participant,
\* binding, flag or timer, and nothing is sent.
C16_UnknownTypeIgnored ==
    [][(log' # <<>> /\ log'[1].ev = "message" /\ log'[1].type = "other")
          => /\ LobbyState' = LobbyState
             /\ sent' = <<>>]_vars

\* C17: a message that does not parse, or lacks cid or username, is
\* discarded: the registry, every lobby, participant, binding and timer and
\* the joins in flight stay as they were, nothing is sent, and the
\* connection stays open.
C17_UnusableMessageDiscarded ==
    [][(log' # <<>> /\ log'[1].ev = "message" /\ log'[1].type \in Unusable)
          => /\ LobbyState' = LobbyState
             /\ pendingJoin' = pendingJoin
             /\ sent' = <<>>
             /\ Len(log') = 1]_vars

\* an unusable message has just been discarded on a connection that is
\* open and bound to userA, whose lobby is registered
C17_Witness ==
    /\ log # <<>> /\ log[1].ev = "message" /\ log[1].type \in Unusable
    /\ \E l \in LobbyIds :
          /\ Registered(l) /\ "userA" \in Active(l)
          /\ readyState[MapGet(lobbyObjs[l].players, "userA").socket] = "OPEN"

\* C18 (as claimed): the messages of one connection take effect in arrival
\* order: while a join received on a connection is suspended on its access
\* validation, no later message of that connection changes a lobby or
\* sends anything.
C18_ArrivalOrderPerConnection ==
    [][\A ws \in Sockets :
          (/\ Len(log') >= 2 /\ log'[1].ev = "message" /\ log'[2] = OnSocket(ws)
           /\ (lobbies' # lobbies \/ lobbyObjs' # lobbyObjs \/ sent' # <<>>))
             => \A j \in BagToSet(pendingJoin) : j.ws # ws]_vars

Tracked(o, u) == MapHas(o.players, u) \/ MapHas(o.disconnectedPlayers, u)
ReadyOf(o, u) ==
    IF MapHas(o.players, u) THEN MapGet(o.players, u).ready
    ELSE MapGet(o.disconnectedPlayers, u).playerData.ready

\* C20: the ready flag of a participant that stays in its lobby changes
\* only in the handler of a ready message of that participant, run while
\* the lobby is registered with status WAITING; and a ready message handled
\* while the status of the registered lobby is IN_PROGRESS or ENDED
\* changes no ready flag, broadcasts no playerReadyToggle and starts
\* nothing.
C20_ReadyOnlyWhileWaiting ==
    [][\A l \in LobbyIds :
          /\ \A u \in Users :
                (/\ Tracked(lobbyObjs[l], u) /\ Tracked(lobbyObjs'[l], u)
                 /\ ReadyOf(lobbyObjs'[l], u) # ReadyOf(lobbyObjs[l], u))
                   => /\ log'[1] = Event("message", 0, "ready", u)
                      /\ Registered(l)
                      /\ lobbyObjs[l].status = "WAITING"
          /\ (/\ log' # <<>> /\ log'[1].ev = "message" /\ log'[1].type = "ready"
              /\ Registered(l)
              /\ lobbyObjs[l].status # "WAITING")
                => /\ \A u \in Users :
                         (Tracked(lobbyObjs[l], u) /\ Tracked(lobbyObjs'[l], u))
                            => ReadyOf(lobbyObjs'[l], u) = ReadyOf(lobbyObjs[l], u)
                   /\ Broadcasts(log', l, "playerReadyToggle", log'[1].username) = 0
                   /\ pendingStart' = pendingStart
                   /\ hist'[l].startCalls = hist[l].startCalls
                   /\ lobbyObjs'[l].status = lobbyObjs[l].status]_vars

\* userA, active and ready in a challenge under way, has just sent ready:
\* it is still ready and nothing was broadcast
C20_Witness ==
    /\ log # <<>> /\ log[1] = Event("message", 0, "ready", "userA")
    /\ sent = <<>>
    /\ \E l \in LobbyIds :
          /\ Registered(l) /\ lobbyObjs[l].status = "IN_PROGRESS"
          /\ "userA" \in Active(l)
          /\ MapGet(lobbyObjs[l].players, "userA").ready

\* C21 (as claimed): an endChallengeForUser message from an active
\* participant of a registered lobby that does not meet the precondition
\* (status IN_PROGRESS, challengeEnded unset, submittedTestsPassed = 12) is
\* answered on the requester's connection with exactly one cannotEndYet
\* and changes nothing: the same usernames stay active, disconnected-pending
\* and completed, with the same records, and the lobby keeps its status and
\* flags.
C21_UnmetEndForUserAnswered ==
    [][\A l \in LobbyIds : \A u \in Users :
          (/\ MessageStep /\ log'[1] = Event("message", 0, "endChallengeForUser", u)
           /\ Registered(l) /\ u \in Active(l)
           /\ readyState[log'[2].ws] = "OPEN"
           /\ ~(/\ lobbyObjs[l].status = "IN_PROGRESS"
                /\ ~lobbyObjs[l].challengeEnded
                /\ MapGet(lobbyObjs[l].players, u).submittedTestsPassed = 12))
             => /\ SentTo(sent', "cannotEndYet", log'[2].ws) = 1
                /\ Active(l)' = Active(l)
                /\ Pending(l)' = Pending(l)
                /\ Completed(l)' = Completed(l)
                /\ \A v \in Active(l) :
                      SameButSocket(MapGet(lobbyObjs'[l].players, v),
                                    MapGet(lobbyObjs[l].players, v))
                /\ lobbyObjs'[l].status = lobbyObjs[l].status
                /\ lobbyObjs'[l].challengeEnded = lobbyObjs[l].challengeEnded
                /\ lobbyObjs'[l].started = lobbyObjs[l].started]_vars

\* C22 (as claimed): once a lobby is ENDED, neither the tick interval nor
\* the backstop timeout of any challenge timer started for it is still
\* pending.
C22_FinalizeCancelsTimers ==
    \A l \in LobbyIds :
        lobbyObjs[l].status = "ENDED"
            => \A t \in TimersOf(l) : ~timers[t].interval /\ ~timers[t].backstop

\* the number of entries of snt that deliver (type, u) to connection ws
SentOf(snt, type, u, ws) ==
    Cardinality({i \in 1..Len(snt) :
                    snt[i].type = type /\ snt[i].username = u /\ snt[i].to = ws})

\* the active participants of lobby object o whose record holds connection ws
BoundTo_ws(o, ws) == {v \in MapKeys(o.players) : MapGet(o.players, v).socket = ws}

\* C23: a broadcast to a lobby delivers the message once for each active
\* participant of that lobby whose connection is open and is not the
\* excluded one, to that connection, and to no other connection: a closed
\* connection, the excluded connection, and a connection held only by
\* disconnected-pending or completed participants or by participants of
\* another lobby receive nothing.
C23_BroadcastRecipients ==
    [][\A i \in 1..Len(log') :
          (/\ log'[i].ev = "broadcast"
           /\ Broadcasts(log', log'[i].lobby, log'[i].type, log'[i].username) = 1)
             => \A ws \in 1..Len(readyState') :
                   SentOf(sent', log'[i].type, log'[i].username, ws) =
                      IF readyState'[ws] = "OPEN" /\ ws # log'[i].ws
                      THEN Cardinality(BoundTo_ws(lobbyObjs'[log'[i].lobby], ws))
                      ELSE 0]_vars

\* a playerJoined broadcast to the lobby of 'abc' has just left out the
\* connection of the joining participant and reached another one, while an
\* open connection held by a completed participant of 'abc', who is also an
\* active participant of a second registered lobby, received nothing, and
\* one connection is closed
C23_Witness ==
    \E i \in 1..Len(log) :
        /\ log[i].ev = "broadcast" /\ log[i].lobby = 1 /\ log[i].type = "playerJoined"
        /\ BoundTo_ws(lobbyObjs[1], log[i].ws) # {}
        /\ \E ws \in Sockets : SentOf(sent, log[i].type, log[i].username, ws) = 1
        /\ \E ws \in Sockets : readyState[ws] = "CLOSED"
        /\ \E l \in LobbyIds \ {1} : \E v \in Completed(1) \cap Active(l) :
              LET ws == MapGet(lobbyObjs[l].players, v).socket
              IN /\ Registered(l) /\ Registered(1)
                 /\ readyState[ws] = "OPEN"
                 /\ MapGet(lobbyObjs[1].completedPlayers, v).socket = ws
                 /\ BoundTo_ws(lobbyObjs[1], ws) = {}
                 /\ SentOf(sent, log[i].type, log[i].username, ws) = 0

\* C24 (as claimed): a lobby leaves the registry only while its status is
\* WAITING (inactivity timeout, or empty after a grace expiry) or ENDED
\* (retention expiry); a lobby whose status is IN_PROGRESS is never removed.
C24_InProgressNeverRemoved ==
    [][\A l \in LobbyIds : Removed(l) => lobbyObjs[l].status # "IN_PROGRESS"]_vars

\* C25 (as claimed): when the backend start call issued for lobby object l
\* returns, the continuation changes l only if l is still registered, still
\* WAITING and not ended, and changes no other lobby object: a lobby created
\* under the same cid in the meantime is left as it is.
C25_StartContinuationGuarded ==
    [][\A l \in LobbyIds :
          (/\ log' # <<>> /\ log'[1].ev = "startReturn"
           /\ l \in pendingStart /\ l \notin pendingStart')
             => /\ \A k \in LobbyIds \ {l} : lobbyObjs'[k] = lobbyObjs[k]
                /\ lobbyObjs'[l] # lobbyObjs[l]
                      => /\ Registered(l)
                         /\ lobbyObjs[l].status = "WAITING"
                         /\ ~lobbyObjs[l].challengeEnded]_vars

\* C26 (as claimed): in a registered WAITING lobby, whenever the active set
\* is non-empty and every active participant is ready, the start has been
\* triggered (started is set), whichever event made the condition hold.
C26_AllReadyImpliesStarted ==
    \A l \in LobbyIds :
        (/\ Registered(l)
         /\ lobbyObjs[l].status = "WAITING"
         /\ AllReady(lobbyObjs[l]))
            => lobbyObjs[l].started

\* every active participant of l on an open connection has just been sent
\* playerLeft for username u
LeftAnnounced(l, u) ==
    \A v \in Active(l)' :
        LET ws == MapGet(lobbyObjs'[l].players, v).socket
        IN readyState'[ws] = "OPEN" => SentOf(sent', "playerLeft", u, ws) >= 1

\* C27 (as claimed): when the grace timer of a disconnected-pending
\* username of a registered lobby fires, the record is removed, playerLeft
\* reaches the remaining active participants, the lobby is finalized if the
\* removal leaves the active set empty while it is IN_PROGRESS, and deleted
\* if it leaves a WAITING lobby empty.
C27_GraceExpiryActiveEmpty ==
    [][\A l \in LobbyIds : \A u \in Users :
          (GraceStep(l, u) /\ Registered(l))
             => /\ u \notin Pending(l)' /\ u \notin Active(l)'
                /\ LeftAnnounced(l, u)
                /\ (/\ lobbyObjs[l].status = "IN_PROGRESS" /\ ~lobbyObjs[l].challengeEnded
                    /\ Active(l)' = {})
                      => lobbyObjs'[l].status = "ENDED" /\ lobbyObjs'[l].challengeEnded
                /\ (/\ lobbyObjs[l].status = "WAITING"
                    /\ Active(l)' = {} /\ Pending(l)' = {})
                      => ~Registered(l)']_vars

\* C27 (amended): when the grace timer of a disconnected-pending username
\* of a registered lobby fires, the record is removed and playerLeft
\* reaches the remaining active participants; the lobby is finalized if it
\* is IN_PROGRESS, not ended, and the removal leaves it with no active and
\* no disconnected-pending participant; while somebody is still active or
\* disconnected-pending the expiry does not end it; a WAITING lobby left
\* with no active and no disconnected-pending participant is deleted.
C27_GraceExpiryTotalEmpty ==
    [][\A l \in LobbyIds : \A u \in Users :
          (GraceStep(l, u) /\ Registered(l))
             => /\ u \notin Pending(l)' /\ u \notin Active(l)'
                /\ LeftAnnounced(l, u)
                /\ (/\ lobbyObjs[l].status = "IN_PROGRESS" /\ ~lobbyObjs[l].challengeEnded
                    /\ Active(l)' = {} /\ Pending(l)' = {})
                      => lobbyObjs'[l].status = "ENDED" /\ lobbyObjs'[l].challengeEnded
                /\ (Active(l)' # {} \/ Pending(l)' # {})
                      => /\ lobbyObjs'[l].status = lobbyObjs[l].status
                         /\ lobbyObjs'[l].challengeEnded = lobbyObjs[l].challengeEnded
                         /\ Registered(l)'
                /\ (/\ lobbyObjs[l].status = "WAITING"
                    /\ Active(l)' = {} /\ Pending(l)' = {})
                      => ~Registered(l)']_vars

\* the grace timer of userA has just fired in a challenge under way while
\* userB is still inside its grace window: nobody is active, and the lobby
\* is still IN_PROGRESS
C27_Witness ==
    /\ log # <<>> /\ log[1] = Event("graceExpire", 0, "", "userA")
    /\ \E l \in LobbyIds :
          /\ Registered(l)
          /\ lobbyObjs[l].status = "IN_PROGRESS" /\ ~lobbyObjs[l].challengeEnded
          /\ Active(l) = {} /\ Pending(l) = {"userB"}
          /\ \E i \in 1..Len(log) : log[i] = Event("permanentLeave", l, "", "userA")

\* the usernames listed in a ranking
Ranked(fs) == {fs[i].username : i \in 1..Len(fs)}

Ended(l) == l \in LobbyIds /\ lobbyObjs[l].challengeEnded

\* C29: every lobby that has been finalized is eventually removed from the
\* registry, given that its backend end call returns or fails and that the
\* retention timeout armed after it fires.
C29_EndedEventuallyRemoved ==
    \A l \in 1..RetireLobbies : [](Ended(l) => <>(Ended(l) /\ ~Registered(l)))

\* the retention timeout armed after the end call of a finalized lobby has
\* just fired and removed that lobby
C29_Witness ==
    /\ log # <<>> /\ log[1].ev = "cleanup"
    /\ \E l \in LobbyIds :
          /\ Ended(l) /\ ~Registered(l)
          /\ hist[l].cleanupsArmed = 1
          /\ l \notin cleanups /\ l \notin pendingEnd
          /\ \E i \in 1..Len(log) : log[i] = Event("deleted", l, "cleanup", "")

\* the record of a username that is active or disconnected-pending in o
RecordOf(o, u) ==
    IF MapHas(o.players, u) THEN MapGet(o.players, u)
    ELSE MapGet(o.disconnectedPlayers, u).playerData

\* C30: a username is moved to the completed table only if the most recent
\* accepted codeSubmitted of that username in the lobby carried
\* testsPassed = 12; a participant record says 12 submitted tests only while
\* that is so (a later accepted codeSubmitted with another value withdraws
\* it); and a testResults, codeRunning or codeFinished message changes the
\* submitted tests of no participant that is tracked before and after it.
C30_CompletionNeedsFullPass ==
    [][\A l \in LobbyIds : \A u \in Users :
          /\ (\E i \in 1..Len(log') : log'[i] = Event("completed", l, "", u))
                => /\ hist[l].lastSubmitted[u] = 12
                   /\ u \in Completed(l)'
          /\ (Tracked(lobbyObjs'[l], u)
              /\ RecordOf(lobbyObjs'[l], u).submittedTestsPassed = 12)
                => hist'[l].lastSubmitted[u] = 12
          /\ (/\ MessageStep
              /\ log'[1].type \in {"testResults", "codeRunning", "codeFinished"}
              /\ Tracked(lobbyObjs[l], u) /\ Tracked(lobbyObjs'[l], u))
                => RecordOf(lobbyObjs'[l], u).submittedTestsPassed =
                       RecordOf(lobbyObjs[l], u).submittedTestsPassed]_vars

\* userB, whose last codeSubmitted carried 12, has just been moved to the
\* completed table, while userA, who had submitted 12 and then 5, is still
\* active with 5 submitted tests
C30_Witness ==
    \E l \in LobbyIds :
        /\ \E i \in 1..Len(log) : log[i] = Event("completed", l, "", "userB")
        /\ "userB" \in Completed(l)
        /\ hist[l].lastSubmitted["userB"] = 12
        /\ hist[l].lastSubmitted["userA"] = 5
        /\ "userA" \in Active(l)
        /\ MapGet(lobbyObjs[l].players, "userA").submittedTestsPassed = 5

\* C31: a join that resumes after validation while the lobby registered
\* under its cid has challengeEnded set is answered with one joinError to
\* the requesting connection (delivered if that connection is open),
\* nothing is broadcast, and the registry, every lobby, every participant
\* record, binding and timer stay as they were, also when the username is
\* disconnected-pending in that lobby.
C31_JoinAfterEndRefused ==
    [][\A j \in BagToSet(pendingJoin) : \A l \in LobbyIds :
          (/\ log' # <<>> /\ log'[1] = Event("validated", 0, "join", j.username)
           /\ pendingJoin' = pendingJoin (-) SetToBag({j})
           /\ Registered(l) /\ lobbyObjs[l].cid = j.cid
           /\ lobbyObjs[l].challengeEnded)
             => /\ LobbyState' = LobbyState
                /\ \A i \in 1..Len(log') : log'[i].ev # "broadcast"
                /\ sent' = IF readyState[j.ws] = "OPEN"
                           THEN <<[type |-> "joinError", to |-> j.ws,
                                   username |-> j.username]>>
                           ELSE <<>>]_vars

\* a join of userB, allowed by the access validation, has just been answered
\* with joinError because the challenge has ended; userB is still
\* disconnected-pending with its grace timer armed
C31_Witness ==
    /\ Len(log) = 1 /\ log[1] = Event("validated", 0, "join", "userB")
    /\ Len(sent) = 1 /\ sent[1].type = "joinError"
    /\ \E l \in LobbyIds :
          /\ Registered(l) /\ lobbyObjs[l].challengeEnded
          /\ "userB" \in Pending(l) /\ "userB" \notin Active(l)
          /\ MapGet(lobbyObjs[l].disconnectedPlayers, "userB").disconnectTimer

\* C32 (as claimed): in the finalScores computed when a lobby is finalized,
\* every username appears at most once and the i-th entry carries rank i.
C32_RankingWithoutDuplicates ==
    [][\A l \in LobbyIds :
          (~lobbyObjs[l].challengeEnded /\ lobbyObjs'[l].challengeEnded)
             => LET fs == hist'[l].finalScores
                IN /\ \A i, j \in 1..Len(fs) : fs[i].username = fs[j].username => i = j
                   /\ \A i \in 1..Len(fs) : fs[i].rank = i]_vars

\* C33 (as claimed): a lobby object is created, and a username that was in
\* no table of a lobby becomes an active participant of it, only in the
\* step in which a join of that username resumes after a successful access
\* validation.
C33_OnlyValidatedJoinsCreate ==
    [][/\ Len(lobbyObjs') > Len(lobbyObjs)
            => log'[1].ev = "validated" /\ log'[1].type = "join"
       /\ \A l \in 1..Len(lobbyObjs') : \A u \in Users :
             (/\ u \in MapKeys(lobbyObjs'[l].players)
              /\ l \in LobbyIds => u \notin Active(l) \cup Pending(l) \cup Completed(l))
                => log'[1] = Event("validated", 0, "join", u)]_vars

\* C34 (as claimed): once the close of a connection has been processed, no
\* active participant of a registered lobby is bound to that connection.
C34_NoActiveOnClosedConnection ==
    \A l \in LobbyIds : \A u \in Active(l) :
        Registered(l) => readyState[MapGet(lobbyObjs[l].players, u).socket] = "OPEN"

\* the step is the firing of a timer that was armed for lobby object l: its
\* inactivity timeout, the grace timeout of one of its disconnected-pending
\* usernames, its retention timeout, the backstop of one of its challenge
\* timers, or a tick while every running interval is one of its own
TimerOfFired(l) ==
    /\ log' # <<>>
    /\ \/ /\ log'[1].ev = "inactivityExpire"
          /\ lobbyObjs[l].inactivityTimer /\ ~lobbyObjs'[l].inactivityTimer
       \/ /\ log'[1].ev = "graceExpire"
          /\ \E u \in Pending(l) \cap Pending(l)' :
                /\ MapGet(lobbyObjs[l].disconnectedPlayers, u).disconnectTimer
                /\ ~MapGet(lobbyObjs'[l].disconnectedPlayers, u).disconnectTimer
       \/ /\ log'[1].ev = "cleanup"
          /\ l \in cleanups /\ l \notin cleanups'
       \/ /\ log'[1].ev = "backstop"
          /\ \E t \in TimersOf(l) : timers[t].backstop /\ ~timers'[t].backstop
       \/ /\ log'[1].ev = "tick"
          /\ \E t \in TimersOf(l) : timers[t].interval
          /\ \A t \in 1..Len(timers) : timers[t].interval => timers[t].lobby = l

\* C35 (as claimed): when a timer armed for a lobby object that is no longer
\* registered fires, it removes no lobby from the registry, changes no other
\* lobby object, finalizes nothing and broadcasts nothing.
C35_TimersActOnOwnLobby ==
    [][\A l \in LobbyIds :
          (~Registered(l) /\ TimerOfFired(l))
             => /\ lobbies' = lobbies
                /\ \A k \in LobbyIds \ {l} : lobbyObjs'[k] = lobbyObjs[k]
                /\ pendingEnd' = pendingEnd
                /\ \A i \in 1..Len(log') : log'[i].ev # "broadcast"]_vars

\* C36 (as claimed): while a lobby stays registered, a username that is in
\* its completed table stays there with the same completed record.
C36_CompletedRecordFrozen ==
    [][\A l \in LobbyIds : \A u \in Completed(l) :
          (Registered(l) /\ Registered(l)')
             => /\ u \in Completed(l)'
                /\ MapGet(lobbyObjs'[l].completedPlayers, u) =
                      MapGet(lobbyObjs[l].completedPlayers, u)]_vars

\* C37: in every registered lobby a username is disconnected-pending if and
\* only if exactly one grace timer armed for that username and lobby is
\* pending, and there are never two.
C37_OneGraceTimerPerPending ==
    \A l \in LobbyIds : \A u \in Users :
        Registered(l)
            => /\ hist[l].graceTimers[u] \in {0, 1}
               /\ u \in Pending(l) <=> hist[l].graceTimers[u] = 1
               /\ u \in Pending(l)
                     => MapGet(lobbyObjs[l].disconnectedPlayers, u).disconnectTimer

\* the connection of userA has just closed, so userA is disconnected-pending
\* with one grace timer, while userB, who lost its connection earlier and
\* came back on socket 1, is active with none
C37_Witness ==
    /\ log # <<>> /\ log[1].ev = "close"
    /\ \E l \in LobbyIds :
          /\ Registered(l)
          /\ "userA" \in Pending(l) /\ hist[l].graceTimers["userA"] = 1
          /\ "userB" \in Active(l) /\ hist[l].graceTimers["userB"] = 0
          /\ MapGet(lobbyObjs[l].players, "userB").socket = 1

\* C38 (as claimed): while a registered lobby is WAITING, every active
\* participant has submitted = false, submittedResults = 0 and
\* submittedTestsPassed = 0.
C38_NoScoresWhileWaiting ==
    \A l \in LobbyIds : \A u \in Active(l) :
        (Registered(l) /\ lobbyObjs[l].status = "WAITING")
            => LET player == MapGet(lobbyObjs[l].players, u)
               IN /\ ~player.submitted
                  /\ player.submittedResults = 0
                  /\ player.submittedTestsPassed = 0

\* ------------------------------------------ the store under its callers
\* resolvers.js calls the store's methods with the arguments of the
\* GraphQL request; the interval of store.js:159-161 calls cleanup every
\* hour.  storeRun.activity[id] is the time of the last create, join, leave
\* or code update of session id.
StoreCall(op, sessionId, userId, touched) ==
    [storeRun EXCEPT !.calls = @ + 1,
                     !.last = [op |-> op, sessionId |-> sessionId, userId |-> userId],
                     !.activity[sessionId] = IF touched THEN storeRun.now ELSE @]

CanCall == storeRun.calls < MaxCalls

CreateSession ==
    /\ CanCall /\ storeRun.uuids < MaxSessions
    /\ LET sessionId == storeRun.uuids + 1
       IN /\ store' = createSession(store, sessionId, "javascript", storeRun.now)
          /\ storeRun' = [StoreCall("createSession", sessionId, "", TRUE) EXCEPT !.uuids = sessionId]
    /\ UNCHANGED lobbyVars

UpdateSessionCode(sessionId, code) ==
    /\ CanCall
    /\ store' = updateSessionCode(store, sessionId, code, storeRun.now)
    /\ storeRun' = StoreCall("updateSessionCode", sessionId, "", MapHas(store.sessions, sessionId))
    /\ UNCHANGED lobbyVars

DeleteSession(sessionId) ==
    /\ CanCall
    /\ store' = deleteSession(store, sessionId)
    /\ storeRun' = StoreCall("deleteSession", sessionId, "", FALSE)
    /\ UNCHANGED lobbyVars

AddParticipant(sessionId, userId) ==
    /\ CanCall
    /\ store' = addParticipant(store, sessionId, userId, userId)
    /\ storeRun' = StoreCall("addParticipant", sessionId, userId, MapHas(store.sessions, sessionId))
    /\ UNCHANGED lobbyVars

RemoveParticipant(sessionId, userId) ==
    /\ CanCall
    /\ store' = removeParticipant(store, sessionId, userId)
    /\ storeRun' = StoreCall("removeParticipant", sessionId, userId,
                             /\ MapHas(store.sessions, sessionId)
                             /\ MapHas(MapGet(store.participants, sessionId), userId))
    /\ UNCHANGED lobbyVars

UpdateUserCursor(sessionId, userId, cursor) ==
    /\ CanCall
    /\ store' = updateUserCursor(store, sessionId, userId, cursor)
    /\ storeRun' = StoreCall("updateUserCursor", sessionId, userId, FALSE)
    /\ UNCHANGED lobbyVars

SetTypingStatus(sessionId, userId, isTyping, cursor) ==
    /\ CanCall
    /\ store' = setTypingStatus(store, sessionId, userId, isTyping, cursor)
    /\ storeRun' = StoreCall("setTypingStatus", sessionId, userId, FALSE)
    /\ UNCHANGED lobbyVars

\* setInterval(() => store.cleanup(), 60 * 60 * 1000)
CleanupInterval ==
    /\ storeRun.now > 0 /\ storeRun.now % Hour = 0
    /\ storeRun.last.op # "cleanup"
    /\ store' = cleanup(store, storeRun.now)
    /\ storeRun' = [storeRun EXCEPT !.last = [op |-> "cleanup", sessionId |-> 0, userId |-> ""]]
    /\ UNCHANGED lobbyVars

\* half an hour passes
ClockAdvance ==
    /\ storeRun.now < MaxNow
    /\ storeRun' = [storeRun EXCEPT !.now = @ + 1,
                                    !.last = [op |-> "", sessionId |-> 0, userId |-> ""]]
    /\ UNCHANGED <<store, lobbyVars>>

NextStore ==
    \/ CreateSession
    \/ \E sessionId \in 1..MaxSessions : UpdateSessionCode(sessionId, "x")
    \/ \E sessionId \in 1..MaxSessions : DeleteSession(sessionId)
    \/ \E sessionId \in 1..MaxSessions, userId \in UserIds : AddParticipant(sessionId, userId)
    \/ \E sessionId \in 1..MaxSessions, userId \in UserIds : RemoveParticipant(sessionId, userId)
    \/ \E sessionId \in 1..MaxSessions, userId \in UserIds, cursor \in Cursors :
          UpdateUserCursor(sessionId, userId, cursor)
    \/ \E sessionId \in 1..MaxSessions, userId \in UserIds, isTyping \in BOOLEAN,
          cursor \in Cursors \cup {Null} :
          SetTypingStatus(sessionId, userId, isTyping, cursor)
    \/ CleanupInterval
    \/ ClockAdvance

SpecStore == Init /\ [][NextStore]_vars

\* vocabulary of the store claims
SessionIds(st) == MapKeys(st.sessions)
ParticipantsOf(st, sessionId) == MapKeys(MapGet(st.participants, sessionId))
TypingOf(st, sessionId) == MapKeys(MapGet(st.typingUsers, sessionId))
CleanupStep == storeRun'.last.op = "cleanup" /\ storeRun.last.op # "cleanup"

\* C39 (as claimed): a run of cleanup deletes exactly the sessions that have
\* no participants and whose lastModified is more than one hour old, and
\* no session it deletes has had a create, join, leave or code update
\* within the last hour.
C39_CleanupDeletesIdleEmpty ==
    [][CleanupStep =>
          \A id \in SessionIds(store) :
             /\ (id \notin SessionIds(store')) <=>
                   (/\ ParticipantsOf(store, id) = {}
                    /\ DateOf(MapGet(store.sessions, id).lastModified) < storeRun.now - Hour)
             /\ (id \notin SessionIds(store')) =>
                   storeRun.activity[id] < storeRun.now - Hour]_vars

\* C40: after any sequence of store operations the sessions, participants
\* and typingUsers maps have the same session ids, and in every session
\* the users with a typing status are participants of the session.
C40_StoreMapsAgree ==
    /\ MapKeys(store.participants) = SessionIds(store)
    /\ MapKeys(store.typingUsers) = SessionIds(store)
    /\ \A id \in SessionIds(store) : TypingOf(store, id) \subseteq ParticipantsOf(store, id)

\* u1 has just been removed from session 1, where u2 stays and is typing
C40_Witness ==
    /\ storeRun.last = [op |-> "removeParticipant", sessionId |-> 1, userId |-> "u1"]
    /\ 1 \in SessionIds(store)
    /\ ParticipantsOf(store, 1) = {"u2"}
    /\ TypingOf(store, 1) = {"u2"}

====
